---- MODULE Spec2Model ----
(***************************************************************************)
(* State-machine model of the scene model and direct-manipulation engine   *)
(* of the React Component Canvas (src/unnamed/part_003, the app script).   *)
(*                                                                         *)
(* JavaScript objects are modelled as a heap: `node` maps an object        *)
(* identity to the fields of the component object, `files` and every       *)
(* `children` field are sequences of identities, so that aliasing, stale   *)
(* references and a node held by two lists are all representable.          *)
(* JSON.parse(JSON.stringify(x)) is modelled by ToJSON (a value without    *)
(* identities) followed by ParseList (fresh identities).                   *)
(***************************************************************************)
EXTENDS Integers, Sequences, FiniteSets, TLC

(***************************************************************************)
(* Bounds of the model (not program constants).                            *)
(***************************************************************************)
MaxNodes == 4          \* component objects alive (reachable) at one time
MaxProps == 1          \* props per component
MaxConnections == 2    \* connection objects alive at one time
MaxClock == 2          \* distinct values Date.now() takes
MaxSelected == 2       \* components Ctrl/Cmd+click gathers in the multi-selection
MaxSteps == 3          \* user inputs in one session of the scene specification
MaxHistorySteps == 66  \* user inputs in one session of the history specification
MaxHitSteps == 3       \* user inputs in one session of the hit-test specification
MaxPersistSteps == 2   \* user inputs in one session of the persistence specification
MaxLayoutSteps == 3    \* changes made to the component of the layout specification
MaxLayoutProps == 2    \* props of a component of the layout specification
MaxModeSteps == 3      \* user inputs in one session of the mode specification
MaxAreaSteps == 3      \* user inputs in one session of the area-selection specification

(***************************************************************************)
(* Program constants.                                                      *)
(***************************************************************************)
maxHistorySize == 30
MIN_COMPONENT_WIDTH == 200
DEFAULT_COMPONENT_WIDTH == 160
DEFAULT_COMPONENT_HEIGHT == 40
PADDING_BASE == 4
CHILD_PADDING == 30
CHAR_WIDTH == 10
NAME_CHAR_WIDTH == 12
NAME_BASE_WIDTH == 60
HEADER_HEIGHT == 60
CLOSING_TAG_SPACING == 40
PROP_WIDTH_PADDING == 100
CHILD_WIDTH_MARGIN == 200
SIMPLE_TAG_RETURN == 15
LINE_HEIGHT_PROP == 20
PROP_SPACING == 5
LINE_HEIGHT_CHILD == 25
NESTED_INDENT_STEP == 20
Y_POSITION_OFFSET == 18
TOGGLE_AREA_X == 8
TOGGLE_AREA_W == 20
EVENT_BOX_WIDTH == 200
EVENT_BOX_HEIGHT == 60
EVENT_BOX_OFFSET_X == 250
TRIGGER_OFFSET_Y == 60

Null == 0
NodeIds == 1..MaxNodes
ConnIds == 1..MaxConnections
Timestamps == 1..MaxClock

COMPONENT == "Component"
HOOK == "HOOK"
TRIGGER == "TRIGGER"

Names == {"Alpha", "Beta"}
PropTexts == {"", "p"}
DefaultHookName == "useHook"
DefaultTriggerName == "NewTrigger"

Max(a, b) == IF a >= b THEN a ELSE b

RECURSIVE MaxOfSeq(_)
MaxOfSeq(s) == IF s = <<>> THEN 0 ELSE Max(Head(s), MaxOfSeq(Tail(s)))

RECURSIVE SumOfSeq(_)
SumOfSeq(s) == IF s = <<>> THEN 0 ELSE Head(s) + SumOfSeq(Tail(s))

Range(s) == {s[i] : i \in 1..Len(s)}

IndexOf(s, e) == IF e \in Range(s) THEN CHOOSE i \in 1..Len(s) : s[i] = e /\ \A j \in 1..(i-1) : s[j] # e ELSE 0

RemoveAt(s, i) == SubSeq(s, 1, i-1) \o SubSeq(s, i+1, Len(s))

(***************************************************************************)
(* ctx.measureText(text).width: the rendering surface's text measurement,  *)
(* taken as the source's own monospace approximation (CHAR_WIDTH a char).  *)
(***************************************************************************)
measureText(len) == len * CHAR_WIDTH

propTextLen(prop) == 2 + Len(prop.name) + 2 + Len(IF prop.value # "" THEN prop.value ELSE prop.name) + 1

(***************************************************************************)
(* Layout engine (heights and widths derived from content).  `h` is the    *)
(* heap.  The components of the scene specifications have no inner content *)
(* (no innerHtml field) and no hooks field, and the widths and the         *)
(* positions below are computed for such components; the heights take both *)
(* fields into account when an object has them.  An innerHtml is the       *)
(* sequence of its lines (split at newlines), a line being "" when it is   *)
(* blank; the empty string is the sequence of no line.                     *)
(***************************************************************************)
innerHtmlOf(c) == IF "innerHtml" \in DOMAIN c THEN c.innerHtml ELSE <<>>

hooksOf(c) == IF "hooks" \in DOMAIN c THEN c.hooks ELSE <<>>

contentLines(c) == Cardinality({i \in 1..Len(innerHtmlOf(c)) : innerHtmlOf(c)[i] # ""})

emptyLines(c) == Len(innerHtmlOf(c)) - contentLines(c)

hasInnerHtml(h, c) == contentLines(h[c]) > 0

hasHooks(h, c) == Len(hooksOf(h[c])) > 0

hasProps(h, c) == Len(h[c].props) > 0

hasChildren(h, c) == Len(h[c].children) > 0

openingTagHeight(h, c) == IF hasProps(h, c) THEN 20 + Len(h[c].props) * 20 + 25 ELSE 25

RECURSIVE calculateChildJSXHeight(_, _)
calculateChildJSXHeight(h, p) ==
  SumOfSeq([i \in 1..Len(h[p].children) |->
     LET child == h[p].children[i] IN
       IF hasChildren(h, child) \/ hasInnerHtml(h, child)
         THEN openingTagHeight(h, child)
              + (IF hasInnerHtml(h, child)
                   THEN contentLines(h[child]) * 16 + emptyLines(h[child]) * 12 ELSE 0)
              + (IF hasChildren(h, child) THEN calculateChildJSXHeight(h, child) ELSE 0)
              + 25
         ELSE openingTagHeight(h, child)])

(* mutation: a collapsed component keeps the lines of its inner content *)
computedHeight_collapsedKeepsInner(h, p) ==
  LET totalHeight == HEADER_HEIGHT + (IF hasProps(h, p) THEN Len(h[p].props) * 20 + 20 ELSE 0)
                       + (IF hasInnerHtml(h, p)
                            THEN contentLines(h[p]) * 16 + emptyLines(h[p]) * 12 + 10 ELSE 0)
  IN IF ~h[p].expanded \/ ~(hasChildren(h, p) \/ hasHooks(h, p) \/ hasInnerHtml(h, p))
       THEN totalHeight
       ELSE totalHeight
            + (IF hasHooks(h, p) THEN Len(hooksOf(h[p])) * 16 + 26 ELSE 0)
            + (IF hasChildren(h, p) THEN calculateChildJSXHeight(h, p) ELSE 0)
            + CLOSING_TAG_SPACING

computedHeight(h, p) ==
  LET totalHeight == HEADER_HEIGHT + (IF hasProps(h, p) THEN Len(h[p].props) * 20 + 20 ELSE 0)
  IN IF ~h[p].expanded \/ ~(hasChildren(h, p) \/ hasHooks(h, p) \/ hasInnerHtml(h, p))
       THEN totalHeight
       ELSE totalHeight
            + (IF hasInnerHtml(h, p)
                 THEN contentLines(h[p]) * 16 + emptyLines(h[p]) * 12 + 10 ELSE 0)
            + (IF hasHooks(h, p) THEN Len(hooksOf(h[p])) * 16 + 26 ELSE 0)
            + (IF hasChildren(h, p) THEN calculateChildJSXHeight(h, p) ELSE 0)
            + CLOSING_TAG_SPACING

updateParentHeight(h, p) == [h EXCEPT ![p].h = computedHeight(h, p)]

RECURSIVE Descendants(_, _)
Descendants(h, p) ==
  UNION {{h[p].children[i]} \cup Descendants(h, h[p].children[i]) : i \in 1..Len(h[p].children)}

repositionChildrenInParent(h, p) ==
  LET touched == {p} \cup {d \in Descendants(h, p) : hasChildren(h, d)}
  IN [n \in DOMAIN h |-> IF n \in touched THEN [h[n] EXCEPT !.h = computedHeight(h, n)] ELSE h[n]]

RECURSIVE updateAllParentHeightsOk(_, _)
updateAllParentHeightsOk(h, list) ==
  \A i \in 1..Len(list) :
     h[list[i]].expanded => (~h[list[i]].isEventBox /\ updateAllParentHeightsOk(h, h[list[i]].children))

RECURSIVE ExpandedChain(_, _)
ExpandedChain(h, list) ==
  UNION {IF h[list[i]].expanded THEN {list[i]} \cup ExpandedChain(h, h[list[i]].children) ELSE {}
         : i \in 1..Len(list)}

updateAllParentHeights(h, list) ==
  LET touched == ExpandedChain(h, list)
  IN [n \in DOMAIN h |-> IF n \in touched THEN [h[n] EXCEPT !.h = computedHeight(h, n)] ELSE h[n]]

maxPropWidth(h, c) == MaxOfSeq([i \in 1..Len(h[c].props) |-> measureText(propTextLen(h[c].props[i]))])

RECURSIVE calculateMaxChildWidth(_, _, _)
childRequiredWidth(h, child, indent) ==
  LET nameLen == Len(h[child].name) IN
  IF hasChildren(h, child)
    THEN LET opening == IF hasProps(h, child)
                          THEN Max(indent + measureText(nameLen + 1), indent + maxPropWidth(h, child))
                          ELSE indent + measureText(nameLen + 1) + measureText(1)
             closing == Max(opening, indent + measureText(nameLen + 3))
         IN Max(closing, calculateMaxChildWidth(h, child, indent + NESTED_INDENT_STEP))
    ELSE IF hasProps(h, child)
           THEN Max(Max(indent + measureText(nameLen + 1), indent + maxPropWidth(h, child)),
                    indent + measureText(2))
           ELSE indent + measureText(nameLen + 4)

calculateMaxChildWidth(h, p, baseIndent) ==
  MaxOfSeq([i \in 1..Len(h[p].children) |-> childRequiredWidth(h, h[p].children[i], baseIndent)])

(* drawChildrenAsJSX: lays the children of a drawn component out as text   *)
(* lines and stores each child's hit box (x, y, w, h).  The child being    *)
(* dragged is skipped.  Returns the heap and the running offsetY.          *)
RECURSIVE drawChildrenAsJSX(_, _, _, _, _, _)
drawChildrenAsJSX(h, kids, indentLevel, startY, baseX, drag) ==
  IF kids = <<>> THEN [heap |-> h, offsetY |-> startY]
  ELSE LET child == Head(kids) IN
    IF child = drag
      THEN drawChildrenAsJSX(h, Tail(kids), indentLevel, startY, baseX, drag)
      ELSE LET placed == [h EXCEPT ![child].x = baseX + indentLevel,
                                   ![child].y = startY - Y_POSITION_OFFSET,
                                   ![child].w = childRequiredWidth(h, child, indentLevel) + 100]
               afterOpen == startY + openingTagHeight(h, child)
               nested == IF hasChildren(h, child)
                           THEN drawChildrenAsJSX(placed, h[child].children,
                                                  indentLevel + NESTED_INDENT_STEP, afterOpen, baseX, drag)
                           ELSE [heap |-> placed, offsetY |-> afterOpen]
               endY == IF hasChildren(h, child) THEN nested.offsetY + 25 ELSE afterOpen
               sized == [nested.heap EXCEPT ![child].h = endY - startY]
           IN drawChildrenAsJSX(sized, Tail(kids), indentLevel, endY, baseX, drag)

offsetFromProps(h, f) ==
  IF hasProps(h, f)
    THEN LINE_HEIGHT_PROP + PROP_SPACING + Len(h[f].props) * LINE_HEIGHT_PROP + LINE_HEIGHT_PROP
    ELSE SIMPLE_TAG_RETURN

componentWidth(h, f) ==
  LET byName == Max(MIN_COMPONENT_WIDTH, Len(h[f].name) * NAME_CHAR_WIDTH + NAME_BASE_WIDTH)
      byProps == IF hasProps(h, f) THEN Max(byName, maxPropWidth(h, f) + PROP_WIDTH_PADDING) ELSE byName
  IN IF hasChildren(h, f) /\ h[f].expanded
       THEN Max(byProps, calculateMaxChildWidth(h, f, PADDING_BASE + CHILD_PADDING) + CHILD_WIDTH_MARGIN)
       ELSE byProps

(* drawFile at level 0: the geometry it stores (the pixels are not modelled) *)
drawFile(h, f, drag) ==
  LET sized == updateParentHeight([h EXCEPT ![f].w = componentWidth(h, f)], f) IN
  IF h[f].isEventBox
    THEN [sized EXCEPT ![f].h = EVENT_BOX_HEIGHT]
    ELSE IF hasChildren(h, f) /\ h[f].expanded
      THEN drawChildrenAsJSX(sized, h[f].children, PADDING_BASE + CHILD_PADDING,
                             h[f].y + 30 + offsetFromProps(h, f) + 10, h[f].x, drag).heap
      ELSE sized

(* getParentComponent: the owner of an event box is the `from` of the      *)
(* first connection that ends at it                                        *)
getParentComponent(h, conns, e) ==
  IF ~h[e].isEventBox THEN Null
  ELSE IF \E i \in 1..Len(conns) : conns[i].to = e
    THEN conns[CHOOSE i \in 1..Len(conns) : conns[i].to = e /\ \A j \in 1..(i-1) : conns[j].to # e].from
    ELSE Null

hiddenEventBox(h, conns, f) ==
  /\ h[f].isEventBox
  /\ getParentComponent(h, conns, f) # Null
  /\ ~h[getParentComponent(h, conns, f)].expanded

RECURSIVE drawAll(_, _, _, _)
drawAll(h, list, conns, drag) ==
  IF list = <<>> THEN h
  ELSE drawAll(IF hiddenEventBox(h, conns, Head(list)) THEN h ELSE drawFile(h, Head(list), drag),
               Tail(list), conns, drag)

(***************************************************************************)
(* Recursive utilities over the tree.                                      *)
(***************************************************************************)
inBox(h, f, x, y) ==
  /\ x >= h[f].x /\ x <= h[f].x + h[f].w
  /\ y >= h[f].y /\ y <= h[f].y + h[f].h

RECURSIVE findFileAtPosition(_, _, _, _, _)
RECURSIVE findFileFrom(_, _, _, _, _, _)
(* mutation: the box of a component is tested before its children *)
findFileFrom_selfFirst(h, conns, x, y, list, i) ==
  IF i < 1 THEN Null
  ELSE LET file == list[i] IN
    IF hiddenEventBox(h, conns, file) THEN findFileFrom(h, conns, x, y, list, i - 1)
    ELSE IF inBox(h, file, x, y) THEN file
    ELSE LET nested == IF hasChildren(h, file)
                         THEN findFileAtPosition(h, conns, x, y, h[file].children)
                         ELSE Null
         IN IF nested # Null THEN nested
            ELSE findFileFrom(h, conns, x, y, list, i - 1)

findFileFrom(h, conns, x, y, list, i) ==
  IF i < 1 THEN Null
  ELSE LET file == list[i] IN
    IF hiddenEventBox(h, conns, file) THEN findFileFrom(h, conns, x, y, list, i - 1)
    ELSE LET nested == IF hasChildren(h, file)
                         THEN findFileAtPosition(h, conns, x, y, h[file].children)
                         ELSE Null
         IN IF nested # Null THEN nested
            ELSE IF inBox(h, file, x, y) THEN file
            ELSE findFileFrom(h, conns, x, y, list, i - 1)

findFileAtPosition(h, conns, x, y, list) == findFileFrom(h, conns, x, y, list, Len(list))

RECURSIVE isDescendantOf(_, _, _)
isDescendantOf(h, potentialChild, potentialParent) ==
  \E i \in 1..Len(h[potentialParent].children) :
     \/ h[potentialParent].children[i] = potentialChild
     \/ isDescendantOf(h, potentialChild, h[potentialParent].children[i])

FirstNonNull(s) ==
  IF \E i \in 1..Len(s) : s[i] # Null
    THEN s[CHOOSE i \in 1..Len(s) : s[i] # Null /\ \A j \in 1..(i-1) : s[j] = Null]
    ELSE Null

RECURSIVE findDropTarget(_, _, _, _, _)
(* mutation: the dragged component itself is accepted at the current level *)
findDropTarget_allowsSelf(h, x, y, draggedFile, list) ==
  IF h[draggedFile].isEventBox THEN Null
  ELSE LET nested == FirstNonNull([i \in 1..Len(list) |->
                        IF list[i] # draggedFile /\ hasChildren(h, list[i]) /\ ~h[list[i]].isEventBox
                          THEN findDropTarget(h, x, y, draggedFile, h[list[i]].children)
                          ELSE Null])
           level == FirstNonNull([i \in 1..Len(list) |->
                        IF /\ ~h[list[i]].isEventBox
                           /\ inBox(h, list[i], x, y)
                           /\ ~isDescendantOf(h, list[i], draggedFile)
                          THEN list[i] ELSE Null])
       IN IF nested # Null THEN nested ELSE level

findDropTarget(h, x, y, draggedFile, list) ==
  IF h[draggedFile].isEventBox THEN Null
  ELSE LET nested == FirstNonNull([i \in 1..Len(list) |->
                        IF list[i] # draggedFile /\ hasChildren(h, list[i]) /\ ~h[list[i]].isEventBox
                          THEN findDropTarget(h, x, y, draggedFile, h[list[i]].children)
                          ELSE Null])
           level == FirstNonNull([i \in 1..Len(list) |->
                        IF /\ list[i] # draggedFile
                           /\ ~h[list[i]].isEventBox
                           /\ inBox(h, list[i], x, y)
                           /\ ~isDescendantOf(h, list[i], draggedFile)
                          THEN list[i] ELSE Null])
       IN IF nested # Null THEN nested ELSE level

Undefined == -1

(* a `let` variable whose declaration has not been evaluated *)
Uninitialized == -2

URL_UPDATE_DELAY == 300
INITIAL_LOAD_DELAY == 100

(* findParentOfComponent: parent is Undefined when the target is not found, *)
(* Null when it is found in the top-level list                              *)
RECURSIVE findParentOfComponent(_, _, _, _)
RECURSIVE findParentFrom(_, _, _, _, _)
findParentFrom(h, targetFile, searchList, parent, i) ==
  IF i > Len(searchList) THEN [parent |-> Undefined, found |-> FALSE]
  ELSE IF searchList[i] = targetFile THEN [parent |-> parent, found |-> TRUE]
  ELSE LET found == IF hasChildren(h, searchList[i])
                      THEN findParentOfComponent(h, targetFile, h[searchList[i]].children, searchList[i])
                      ELSE [parent |-> Undefined, found |-> FALSE]
       IN IF found.parent # Undefined THEN found
          ELSE findParentFrom(h, targetFile, searchList, parent, i + 1)

findParentOfComponent(h, targetFile, searchList, parent) ==
  findParentFrom(h, targetFile, searchList, parent, 1)

(* removeFile's search: the list that holds the target ("found", with the  *)
(* owner of that list, Null for the top-level list), "none", or "throw"    *)
(* when the search reaches an event box, which has no children field       *)
(* (list.indexOf on undefined is a TypeError)                              *)
RECURSIVE removeSearch(_, _, _, _)
RECURSIVE removeSearchFrom(_, _, _, _)
removeSearchFrom(h, target, list, i) ==
  IF i > Len(list) THEN [status |-> "none", owner |-> Null]
  ELSE IF h[list[i]].isEventBox THEN [status |-> "throw", owner |-> Null]
  ELSE LET r == removeSearch(h, target, h[list[i]].children, list[i])
       IN IF r.status = "none" THEN removeSearchFrom(h, target, list, i + 1) ELSE r

removeSearch(h, target, list, owner) ==
  IF target \in Range(list) THEN [status |-> "found", owner |-> owner]
  ELSE removeSearchFrom(h, target, list, 1)

(* the value of selectedConnection when no connection is selected (null) *)
NoConnection == [oid |-> Null, id |-> Null, from |-> Null, to |-> Null]

connectionsWithout(conns, target) ==
  SelectSeq(conns, LAMBDA c : c.from # target /\ c.to # target)

(* removeFile(target, list) on the scene sc = [node, files, connections,   *)
(* selectedConnection]; `owner` names the list (Null: files)                *)
removeFile(sc, target, owner) ==
  LET list == IF owner = Null THEN sc.files ELSE sc.node[owner].children
      r == removeSearch(sc.node, target, list, owner)
  IN IF r.status # "found" THEN [status |-> r.status, scene |-> sc]
     ELSE LET held == IF r.owner = Null THEN sc.files ELSE sc.node[r.owner].children
              cut == RemoveAt(held, IndexOf(held, target))
          IN [status |-> "found",
              scene |-> [node |-> IF r.owner = Null THEN sc.node
                                  ELSE [sc.node EXCEPT ![r.owner].children = cut],
                         files |-> IF r.owner = Null THEN cut ELSE sc.files,
                         connections |-> connectionsWithout(sc.connections, target),
                         selectedConnection |->
                            IF sc.selectedConnection # NoConnection
                               /\ (sc.selectedConnection.from = target \/ sc.selectedConnection.to = target)
                              THEN NoConnection ELSE sc.selectedConnection]]

(***************************************************************************)
(* JSON.stringify / JSON.parse and object identity.                        *)
(***************************************************************************)
RECURSIVE ToJSON(_, _)
ToJSON(h, n) ==
  [name |-> h[n].name, x |-> h[n].x, y |-> h[n].y, w |-> h[n].w, h |-> h[n].h,
   children |-> [i \in 1..Len(h[n].children) |-> ToJSON(h, h[n].children[i])],
   expanded |-> h[n].expanded, type |-> h[n].type, isEventBox |-> h[n].isEventBox,
   props |-> h[n].props]

ListToJSON(h, list) == [i \in 1..Len(list) |-> ToJSON(h, list[i])]

ConnectionsToJSON(h, conns) ==
  [i \in 1..Len(conns) |-> [id |-> conns[i].id, from |-> ToJSON(h, conns[i].from), to |-> ToJSON(h, conns[i].to)]]

RECURSIVE JSize(_)
JSize(j) == 1 + SumOfSeq([i \in 1..Len(j.children) |-> JSize(j.children[i])])

JSizeList(js) == SumOfSeq([i \in 1..Len(js) |-> JSize(js[i])])

EmptyHeap == [n \in {} |-> 0]

(* JSON.parse of a list of components: every object gets a fresh identity, *)
(* taken in pre-order from the sequence `free`                              *)
RECURSIVE ParseList(_, _)
ParseList(js, free) ==
  IF Len(js) = 0 THEN [ids |-> <<>>, heap |-> EmptyHeap]
  ELSE LET j == js[1]
           me == free[1]
           kids == ParseList(j.children, Tail(free))
           rest == ParseList(Tail(js), SubSeq(free, JSize(j) + 1, Len(free)))
       IN [ids |-> <<me>> \o rest.ids,
           heap |-> (me :> [name |-> j.name, x |-> j.x, y |-> j.y, w |-> j.w, h |-> j.h,
                            children |-> kids.ids, expanded |-> j.expanded, type |-> j.type,
                            isEventBox |-> j.isEventBox, props |-> j.props])
                    @@ kids.heap @@ rest.heap]

RECURSIVE SortedSeq(_)
SortedSeq(S) ==
  IF S = {} THEN <<>>
  ELSE LET m == CHOOSE a \in S : \A b \in S : a <= b IN <<m>> \o SortedSeq(S \ {m})

(* flattenComponents of reconstructConnections: pre-order *)
RECURSIVE flattenComponents(_, _)
flattenComponents(h, list) ==
  IF list = <<>> THEN <<>>
  ELSE <<Head(list)>> \o flattenComponents(h, h[Head(list)].children) \o flattenComponents(h, Tail(list))

findComponentByProperties(h, allComponents, saved) ==
  FirstNonNull([i \in 1..Len(allComponents) |->
     IF /\ h[allComponents[i]].name = saved.name
        /\ h[allComponents[i]].x = saved.x
        /\ h[allComponents[i]].y = saved.y
        /\ h[allComponents[i]].type = saved.type
       THEN allComponents[i] ELSE Null])

(* reconstructConnections: `oids` are the identities of the new connection *)
(* objects, in order                                                       *)
RECURSIVE reconstructFrom(_, _, _, _)
reconstructFrom(savedConnections, h, allComponents, oids) ==
  IF Len(savedConnections) = 0 THEN <<>>
  ELSE LET saved == savedConnections[1]
           fromComponent == findComponentByProperties(h, allComponents, saved.from)
           toComponent == findComponentByProperties(h, allComponents, saved.to)
       IN IF fromComponent # Null /\ toComponent # Null
            THEN <<[oid |-> oids[1], id |-> saved.id, from |-> fromComponent, to |-> toComponent]>>
                 \o reconstructFrom(Tail(savedConnections), h, allComponents, Tail(oids))
            ELSE reconstructFrom(Tail(savedConnections), h, allComponents, oids)

reconstructConnections(savedConnections, h, loadedFiles, oids) ==
  reconstructFrom(savedConnections, h, flattenComponents(h, loadedFiles), oids)

(* objects reachable from a set of references (what the garbage collector  *)
(* keeps); computed as a fixpoint so that it is defined on any heap        *)
RECURSIVE Reach(_, _)
Reach(h, S) ==
  LET T == S \cup UNION {Range(h[n].children) : n \in S}
  IN IF T = S THEN S ELSE Reach(h, T)

TreeNodes(h, fs) == Reach(h, Range(fs))

(***************************************************************************)
(* The program state: the module-level variables of the script.            *)
(* drawerOpen is the `open` class of the configuration drawer.  `pointer`   *)
(* is the state of the mouse: its button (phase "idle", "down", or "up"    *)
(* between a mouseup and the click the browser dispatches right after it), *)
(* where it is, and whether Ctrl/Cmd is held.                              *)
(* `steps` is the number of inputs the user still makes in the session: a  *)
(* press of the button, a move, a key or a panel operation (the release of *)
(* the button and the click that follows it belong to the press).          *)
(* `last` and `pre` are history variables of the verification: the handler *)
(* that ran last, and the scene (as JSON) that the user operation it       *)
(* completed started from (a drag starts at its mousedown); after a        *)
(* handler that completes no operation, `pre` is the scene it leaves, and  *)
(* after an undo it is still the scene the handler before it started from. *)
(* `localStorage` is the item 'react-component-planner' of the browser's   *)
(* local storage and `url` the `state` parameter of the page's URL: a      *)
(* sequence that is empty when there is none and holds the stored project  *)
(* otherwise.  `timeouts` are the browser's pending timeouts that call     *)
(* saveToURL: pairs of an identifier and the time (ms) left until it runs; *)
(* `urlUpdateTimeout` is Null or the identifier setTimeout returned, and   *)
(* Uninitialized before its declaration is evaluated.  `page` tells        *)
(* whether the script runs ("running"), was aborted by an exception at its *)
(* top level ("aborted"), or the page was left ("unloaded").               *)
(***************************************************************************)
VARIABLES node, files, connections, history,
          draggingFile, offsetX, offsetY,
          selectedFile, selectedChild, multiSelectedFiles,
          isAreaSelecting, selectionAreaStart, selectionAreaEnd,
          isConnecting, connectionStart, selectedConnection,
          drawerOpen, pointer, steps, last, pre,
          localStorage, url, timeouts, urlUpdateTimeout, isInitialLoad, page

vars == <<node, files, connections, history, draggingFile, offsetX, offsetY,
          selectedFile, selectedChild, multiSelectedFiles,
          isAreaSelecting, selectionAreaStart, selectionAreaEnd,
          isConnecting, connectionStart, selectedConnection,
          drawerOpen, pointer, steps, last, pre,
          localStorage, url, timeouts, urlUpdateTimeout, isInitialLoad, page>>

Cur ==
  [node |-> node, files |-> files, connections |-> connections, history |-> history,
   draggingFile |-> draggingFile, offsetX |-> offsetX, offsetY |-> offsetY,
   selectedFile |-> selectedFile, selectedChild |-> selectedChild,
   multiSelectedFiles |-> multiSelectedFiles,
   isAreaSelecting |-> isAreaSelecting, selectionAreaStart |-> selectionAreaStart,
   selectionAreaEnd |-> selectionAreaEnd,
   isConnecting |-> isConnecting, connectionStart |-> connectionStart,
   selectedConnection |-> selectedConnection, drawerOpen |-> drawerOpen,
   localStorage |-> localStorage, url |-> url, timeouts |-> timeouts,
   urlUpdateTimeout |-> urlUpdateTimeout, isInitialLoad |-> isInitialLoad]

EntryRefs(e) == {e.selectedFile, e.selectedChild} \cup Range(e.multiSelectedFiles)

ConnRefs(c) == {c.from, c.to}

(* every reference the script still holds, the tree excepted *)
HeldRefs(s) ==
  ({s.draggingFile, s.selectedFile, s.selectedChild, s.connectionStart}
     \cup Range(s.multiSelectedFiles)
     \cup ConnRefs(s.selectedConnection)
     \cup UNION {ConnRefs(s.connections[i]) : i \in 1..Len(s.connections)}
     \cup UNION {EntryRefs(s.history[i]) : i \in 1..Len(s.history)}) \ {Null}

Roots(s) == Range(s.files) \cup HeldRefs(s)

Restrict(h, S) == [n \in S |-> h[n]]

FreeNodeIds(s) == SortedSeq(NodeIds \ DOMAIN s.node)

UsedConnIds(s) ==
  {s.connections[i].oid : i \in 1..Len(s.connections)}
    \cup (IF s.selectedConnection = NoConnection THEN {} ELSE {s.selectedConnection.oid})

FreeConnIds(s) == SortedSeq(ConnIds \ UsedConnIds(s))

SceneJSON(s) ==
  [files |-> ListToJSON(s.node, s.files), connections |-> ConnectionsToJSON(s.node, s.connections)]

(* every reference the script holds, in a fixed order: the tree first *)
RootsSeq(s) ==
  s.files \o <<s.draggingFile, s.selectedFile, s.selectedChild, s.connectionStart>>
    \o s.multiSelectedFiles
    \o <<s.selectedConnection.from, s.selectedConnection.to>>
    \o [i \in 1..(2 * Len(s.connections)) |->
          IF i % 2 = 1 THEN s.connections[(i + 1) \div 2].from ELSE s.connections[i \div 2].to]
    \o [i \in 1..(2 * Len(s.history)) |->
          IF i % 2 = 1 THEN s.history[(i + 1) \div 2].selectedFile
                       ELSE s.history[i \div 2].selectedChild]
    \o SortedSeq(UNION {Range(s.history[i].multiSelectedFiles) : i \in 1..Len(s.history)})

(* the live objects in depth-first order from the references *)
RECURSIVE Visit(_, _, _)
Visit(h, stack, acc) ==
  IF stack = <<>> THEN acc
  ELSE IF Head(stack) = Null \/ Head(stack) \in Range(acc) THEN Visit(h, Tail(stack), acc)
  ELSE Visit(h, h[Head(stack)].children \o Tail(stack), Append(acc, Head(stack)))

(* Commit the state a handler leaves behind; m is the mouse after it.      *)
(* Unreachable objects are                                                 *)
(* freed, and the identities of the live objects (which carry no meaning   *)
(* beyond being distinct) are renumbered in the order of Visit, so that    *)
(* two states that differ only in the naming of objects are one state.     *)
Store(s, l, p, m, input) ==
  LET live == Visit(s.node, RootsSeq(s), <<>>)
      R(n) == IF n = Null THEN Null ELSE IndexOf(live, n)
      RS(seq) == [i \in 1..Len(seq) |-> R(seq[i])]
      RC(c, oid) == [oid |-> oid, id |-> c.id, from |-> R(c.from), to |-> R(c.to)]
      position == IndexOf([i \in 1..Len(s.connections) |-> s.connections[i].oid],
                          s.selectedConnection.oid)
  IN
  /\ steps >= input
  /\ node' = [k \in 1..Len(live) |-> [s.node[live[k]] EXCEPT !.children = RS(@)]]
  /\ files' = RS(s.files)
  /\ connections' = [i \in 1..Len(s.connections) |-> RC(s.connections[i], i)]
  /\ history' = [i \in 1..Len(s.history) |->
                   [s.history[i] EXCEPT !.selectedFile = R(@), !.selectedChild = R(@),
                                        !.multiSelectedFiles = RS(@)]]
  /\ draggingFile' = R(s.draggingFile)
  /\ offsetX' = s.offsetX
  /\ offsetY' = s.offsetY
  /\ selectedFile' = R(s.selectedFile)
  /\ selectedChild' = R(s.selectedChild)
  /\ multiSelectedFiles' = RS(s.multiSelectedFiles)
  /\ isAreaSelecting' = s.isAreaSelecting
  /\ selectionAreaStart' = s.selectionAreaStart
  /\ selectionAreaEnd' = s.selectionAreaEnd
  /\ isConnecting' = s.isConnecting
  /\ connectionStart' = R(s.connectionStart)
  /\ selectedConnection' =
       IF s.selectedConnection = NoConnection THEN NoConnection
       ELSE RC(s.selectedConnection, IF position = 0 THEN Len(s.connections) + 1 ELSE position)
  /\ drawerOpen' = s.drawerOpen
  /\ pointer' = m
  /\ steps' = steps - input
  /\ last' = [l EXCEPT !.a = R(@), !.b = R(@)]
  /\ pre' = p
  /\ localStorage' = s.localStorage
  /\ url' = s.url
  /\ timeouts' = s.timeouts
  /\ urlUpdateTimeout' = s.urlUpdateTimeout
  /\ isInitialLoad' = s.isInitialLoad

(* the state a handler of the canvas, the keyboard or the panel leaves:    *)
(* these listeners exist once the script has run to its end; the release   *)
(* of the button and the click after it belong to the press                *)
Put(s, l, p, m) ==
  /\ page = "running"
  /\ Store(s, l, p, m, IF pointer.phase = "up" \/ m.phase = "up" THEN 0 ELSE 1)
  /\ page' = page

(* the handler that ran: its name and up to two objects it acted on; for   *)
(* an undo, `of` is the handler that ran before it                         *)
Op(name, a, b) == [op |-> name, a |-> a, b |-> b, of |-> ""]

(***************************************************************************)
(* Utility functions of the script, as functions of the state record.      *)
(***************************************************************************)
clearSelection(s) ==
  [s EXCEPT !.selectedFile = Null, !.selectedChild = Null, !.multiSelectedFiles = <<>>]

isComponentSelected(s, c) == s.selectedFile = c \/ c \in Range(s.multiSelectedFiles)

addToMultiSelection(s, c) ==
  [s EXCEPT !.multiSelectedFiles = IF c \in Range(@) THEN @ ELSE Append(@, c),
            !.selectedFile = Null, !.selectedChild = Null]

removeFromMultiSelection(s, c) ==
  [s EXCEPT !.multiSelectedFiles = IF c \in Range(@) THEN RemoveAt(@, IndexOf(@, c)) ELSE @]

Min(a, b) == IF a <= b THEN a ELSE b

isInSelectionArea(h, c, startX, startY, endX, endY) ==
  ~ \/ h[c].x + h[c].w < Min(startX, endX)
    \/ h[c].x > Max(startX, endX)
    \/ h[c].y + h[c].h < Min(startY, endY)
    \/ h[c].y > Max(startY, endY)

(* mutation: only the components of the list itself are checked *)
selectComponentsInArea_topLevelOnly(h, components, startX, startY, endX, endY) ==
  SelectSeq(components, LAMBDA c : isInSelectionArea(h, c, startX, startY, endX, endY))

selectComponentsInArea(h, components, startX, startY, endX, endY) ==
  SelectSeq(flattenComponents(h, components),
            LAMBDA c : isInSelectionArea(h, c, startX, startY, endX, endY))

resetConnectionMode(s) == [s EXCEPT !.connectionStart = Null, !.isConnecting = FALSE]

(* mutation: the check looks at one direction only *)
connectionExists_oneWay(conns, from, to) ==
  \E i \in 1..Len(conns) : conns[i].from = from /\ conns[i].to = to

connectionExists(conns, from, to) ==
  \E i \in 1..Len(conns) :
     \/ conns[i].from = from /\ conns[i].to = to
     \/ conns[i].from = to /\ conns[i].to = from

createNewComponent(name, x, y) ==
  [name |-> name, x |-> x, y |-> y, w |-> DEFAULT_COMPONENT_WIDTH, h |-> DEFAULT_COMPONENT_HEIGHT,
   children |-> <<>>, expanded |-> TRUE, type |-> COMPONENT, isEventBox |-> FALSE, props |-> <<>>]

(* the event box of createHookFromInput / createTriggerFromInput; it has   *)
(* no children, expanded or props field (modelled as empty / FALSE, with   *)
(* isEventBox telling that children is undefined)                          *)
createEventBox(name, x, y, type) ==
  [name |-> name, x |-> x, y |-> y, w |-> EVENT_BOX_WIDTH, h |-> EVENT_BOX_HEIGHT,
   children |-> <<>>, expanded |-> FALSE, type |-> type, isEventBox |-> TRUE, props |-> <<>>]

saveToLocalStorage(s) == [s EXCEPT !.localStorage = <<SceneJSON(s)>>]

saveToURL(s) == [s EXCEPT !.url = <<SceneJSON(s)>>]

(* the browser's timers: a new timeout gets an identifier not in use *)
clearTimeout(pending, id) == {t \in pending : t[1] # id}

newTimeout(pending) == CHOOSE id \in 1..(Cardinality(pending) + 1) : \A t \in pending : t[1] # id

setTimeout(pending, delay) == pending \cup {<<newTimeout(pending), delay>>}

(* the timeout set: its callback (saveToURL, then urlUpdateTimeout = null) *)
(* runs in TimePasses                                                      *)
scheduleURLUpdate(s) ==
  [s EXCEPT !.urlUpdateTimeout = newTimeout(s.timeouts),
            !.timeouts = setTimeout(@, URL_UPDATE_DELAY)]

saveToURLAsync(s) ==
  scheduleURLUpdate([s EXCEPT !.timeouts = IF s.urlUpdateTimeout # Null
                                              THEN clearTimeout(@, s.urlUpdateTimeout) ELSE @])

(* reading urlUpdateTimeout before its declaration is evaluated throws a   *)
(* ReferenceError out of saveToURLAsync and draw                           *)
drawThrows(s) == ~s.isInitialLoad /\ s.urlUpdateTimeout = Uninitialized

(* the end of draw: the URL is updated unless this is the initial load *)
updateURL(s) == IF s.isInitialLoad \/ drawThrows(s) THEN s ELSE saveToURLAsync(s)

draw(s) ==
  updateURL(saveToLocalStorage([s EXCEPT !.node = drawAll(s.node, s.files, s.connections,
                                                          s.draggingFile)]))

(***************************************************************************)
(* Undo functionality.                                                     *)
(***************************************************************************)
(* mutation: a full history drops the entry just pushed (pop for shift) *)
saveState_dropsNewest(s) ==
  LET state == [files |-> ListToJSON(s.node, s.files),
                connections |-> ConnectionsToJSON(s.node, s.connections),
                selectedFile |-> s.selectedFile,
                selectedChild |-> s.selectedChild,
                multiSelectedFiles |-> s.multiSelectedFiles]
      pushed == Append(s.history, state)
  IN [s EXCEPT !.history = IF Len(pushed) > maxHistorySize
                             THEN SubSeq(pushed, 1, maxHistorySize) ELSE pushed]

saveState(s) ==
  LET state == [files |-> ListToJSON(s.node, s.files),
                connections |-> ConnectionsToJSON(s.node, s.connections),
                selectedFile |-> s.selectedFile,
                selectedChild |-> s.selectedChild,
                multiSelectedFiles |-> s.multiSelectedFiles]
      pushed == Append(s.history, state)
  IN [s EXCEPT !.history = IF Len(pushed) > maxHistorySize THEN Tail(pushed) ELSE pushed]

(* what undo leaves reachable apart from the restored tree *)
UndoKept(s) ==
  LET previousState == s.history[Len(s.history)]
      after == [s EXCEPT !.files = <<>>, !.connections = <<>>,
                         !.history = SubSeq(s.history, 1, Len(s.history) - 1),
                         !.selectedFile = previousState.selectedFile,
                         !.selectedChild = previousState.selectedChild,
                         !.multiSelectedFiles = previousState.multiSelectedFiles]
  IN Reach(s.node, HeldRefs(after))

UndoConnIds(s) ==
  SortedSeq(ConnIds \ (IF s.selectedConnection = NoConnection THEN {} ELSE {s.selectedConnection.oid}))

(* mutation: with nothing to undo, the selection is dropped *)
undo_emptyDeselects(s) ==
  IF Len(s.history) = 0 THEN draw(clearSelection(s))
  ELSE LET previousState == s.history[Len(s.history)]
           kept == UndoKept(s)
           parsed == ParseList(previousState.files, SortedSeq(NodeIds \ kept))
           heap == parsed.heap @@ Restrict(s.node, kept)
       IN draw([s EXCEPT !.history = SubSeq(s.history, 1, Len(s.history) - 1),
                         !.node = heap,
                         !.files = parsed.ids,
                         !.connections = reconstructConnections(previousState.connections, heap,
                                                                parsed.ids, UndoConnIds(s)),
                         !.selectedFile = previousState.selectedFile,
                         !.selectedChild = previousState.selectedChild,
                         !.multiSelectedFiles = previousState.multiSelectedFiles])

undo(s) ==
  IF Len(s.history) = 0 THEN s
  ELSE LET previousState == s.history[Len(s.history)]
           kept == UndoKept(s)
           parsed == ParseList(previousState.files, SortedSeq(NodeIds \ kept))
           heap == parsed.heap @@ Restrict(s.node, kept)
       IN draw([s EXCEPT !.history = SubSeq(s.history, 1, Len(s.history) - 1),
                         !.node = heap,
                         !.files = parsed.ids,
                         !.connections = reconstructConnections(previousState.connections, heap,
                                                                parsed.ids, UndoConnIds(s)),
                         !.selectedFile = previousState.selectedFile,
                         !.selectedChild = previousState.selectedChild,
                         !.multiSelectedFiles = previousState.multiSelectedFiles])

CanUndo(s) ==
  Len(s.history) > 0 =>
     /\ JSizeList(s.history[Len(s.history)].files) <= Cardinality(NodeIds \ UndoKept(s))
     /\ Len(s.history[Len(s.history)].connections) <= Len(UndoConnIds(s))

(***************************************************************************)
(* Event handlers, as functions of the state record.  A handler that       *)
(* throws returns the state it had reached when the exception left it.     *)
(***************************************************************************)
Scene(s) ==
  [node |-> s.node, files |-> s.files, connections |-> s.connections,
   selectedConnection |-> s.selectedConnection]

WithScene(s, sc) ==
  [s EXCEPT !.node = sc.node, !.files = sc.files, !.connections = sc.connections,
            !.selectedConnection = sc.selectedConnection]

NewNodeId(s) == FreeNodeIds(s)[1]

NewConnId(s) == FreeConnIds(s)[1]

hit(s, x, y) == findFileAtPosition(s.node, s.connections, x, y, s.files)

(* finishInput: the name typed into the input shown by a double click on   *)
(* empty canvas                                                            *)
finishInput(s, name, x, y) ==
  LET s1 == saveState(s)
      file == NewNodeId(s)
  IN draw([s1 EXCEPT !.node = (file :> createNewComponent(name, x, y)) @@ @,
                     !.files = Append(@, file)])

(* mousedown in connection mode; `now` is the value of Date.now() *)
mousedownConnecting(s, x, y, now) ==
  LET clickedFile == hit(s, x, y) IN
  draw(IF clickedFile # Null
         THEN IF s.connectionStart = Null
                THEN [s EXCEPT !.connectionStart = clickedFile]
                ELSE IF clickedFile # s.connectionStart
                  THEN IF ~connectionExists(s.connections, s.connectionStart, clickedFile)
                         THEN resetConnectionMode(saveState(
                                [s EXCEPT !.connections =
                                    Append(@, [oid |-> NewConnId(s), id |-> now,
                                               from |-> s.connectionStart, to |-> clickedFile])]))
                         ELSE resetConnectionMode(s)
                  ELSE s
         ELSE resetConnectionMode(s))

(* mousedown on a connection line (findConnectionAtPosition found conn) *)
mousedownConnection(s, conn) ==
  draw(clearSelection([s EXCEPT !.selectedConnection = conn]))

(* mousedown outside connection mode, no connection line under the pointer *)
mousedownCanvas(s, x, y, ctrl) ==
  LET clickedFile == hit(s, x, y)
      isTopLevel == clickedFile \in Range(s.files)
      isSelected == isComponentSelected(s, clickedFile)
      grabbed == [s EXCEPT !.draggingFile = clickedFile,
                           !.offsetX = x - s.node[clickedFile].x,
                           !.offsetY = y - s.node[clickedFile].y]
  IN IF clickedFile # Null /\ ~ctrl
       THEN IF clickedFile \in Range(s.multiSelectedFiles)
              THEN draw(grabbed)
              ELSE LET chosen == [clearSelection(s) EXCEPT
                                    !.selectedFile = clickedFile,
                                    !.selectedChild = IF isTopLevel THEN Null ELSE clickedFile]
                   IN IF isTopLevel \/ isSelected
                        THEN draw([chosen EXCEPT !.draggingFile = clickedFile,
                                                 !.offsetX = x - s.node[clickedFile].x,
                                                 !.offsetY = y - s.node[clickedFile].y])
                        ELSE draw(chosen)
     ELSE IF clickedFile # Null
       THEN draw(IF clickedFile \in Range(s.multiSelectedFiles)
                   THEN removeFromMultiSelection(s, clickedFile)
                   ELSE addToMultiSelection(s, clickedFile))
     ELSE [(IF ~ctrl THEN clearSelection(s) ELSE s) EXCEPT
              !.isAreaSelecting = TRUE,
              !.selectionAreaStart = <<x, y>>,
              !.selectionAreaEnd = <<x, y>>,
              !.selectedConnection = NoConnection]

(* hoverChanged: whether the component or connection under the pointer    *)
(* differs from the one recorded by the previous mousemove                *)
mousemove(s, x, y, hoverChanged) ==
  IF s.isConnecting /\ s.connectionStart # Null THEN draw(s)
  ELSE IF s.isAreaSelecting THEN draw([s EXCEPT !.selectionAreaEnd = <<x, y>>])
  ELSE IF s.draggingFile = Null THEN (IF hoverChanged THEN draw(s) ELSE s)
  ELSE LET d == s.draggingFile
           deltaX == (x - s.offsetX) - s.node[d].x
           deltaY == (y - s.offsetY) - s.node[d].y
           group == IF d \in Range(s.multiSelectedFiles) THEN Range(s.multiSelectedFiles) \ {d} ELSE {}
       IN draw([s EXCEPT !.node = [n \in DOMAIN @ |->
                  IF n = d THEN [@[n] EXCEPT !.x = x - s.offsetX, !.y = y - s.offsetY]
                  ELSE IF n \in group THEN [@[n] EXCEPT !.x = @ + deltaX, !.y = @ + deltaY]
                  ELSE @[n]]])

RECURSIVE addAllToMultiSelection(_, _)
addAllToMultiSelection(s, comps) ==
  IF comps = <<>> THEN s ELSE addAllToMultiSelection(addToMultiSelection(s, Head(comps)), Tail(comps))

mouseupAreaSelection(s, ctrl) ==
  LET selectedComponents == selectComponentsInArea(s.node, s.files,
                               s.selectionAreaStart[1], s.selectionAreaStart[2],
                               s.selectionAreaEnd[1], s.selectionAreaEnd[2])
      chosen == IF Len(selectedComponents) > 0
                  THEN IF ctrl THEN addAllToMultiSelection(s, selectedComponents)
                       ELSE [clearSelection(s) EXCEPT !.multiSelectedFiles = selectedComponents]
                  ELSE IF ~ctrl THEN clearSelection(s) ELSE s
  IN [chosen EXCEPT !.isAreaSelecting = FALSE]

(* mutation: the drop target is whatever component lies under the pointer, *)
(* the dragged one and its subtree not excluded                            *)
dropTargetOf_plainHit(s, x, y) ==
  IF s.node[s.draggingFile].isEventBox THEN Null
  ELSE LET under == findFileAtPosition(s.node, s.connections, x, y, s.files)
       IN IF under # Null /\ s.node[under].isEventBox THEN Null ELSE under

(* mutation: a dragged event box is given a drop target like a component *)
dropTargetOf_eventBoxDrops(s, x, y) ==
  findDropTarget([s.node EXCEPT ![s.draggingFile].isEventBox = FALSE], x, y, s.draggingFile, s.files)

dropTargetOf(s, x, y) ==
  IF s.node[s.draggingFile].isEventBox THEN Null
  ELSE findDropTarget(s.node, x, y, s.draggingFile, s.files)

(* updateParentHeight recurses through children lists: on a structure that *)
(* contains a cycle the recursion ends in a RangeError (stack exhausted)   *)
cyclic(h, n) == n \in Reach(h, Range(h[n].children))

(* mutation: a drop appends the dragged component to the target without   *)
(* taking it out of the list that holds it                                 *)
mouseupSingleDrag_keepsOldPlace(s, x, y) ==
  LET d == s.draggingFile
      dropTarget == dropTargetOf(s, x, y)
      currentParentInfo == findParentOfComponent(s.node, d, s.files, Null)
      parent == currentParentInfo.parent
      hasParent == parent # Null /\ parent # Undefined
  IN IF dropTarget # Null
       THEN LET s3 == [s EXCEPT !.node[dropTarget].children = Append(@, d)]
                s4 == [s3 EXCEPT !.node = repositionChildrenInParent(@, dropTarget)]
            IN IF cyclic(s3.node, dropTarget) THEN s3
               ELSE draw([s4 EXCEPT !.draggingFile = Null])
       ELSE IF d \notin Range(s.files) /\ hasParent
         THEN LET s1 == WithScene(s, removeFile(Scene(s), d, parent).scene)
                  s2 == [s1 EXCEPT !.files = Append(@, d)]
                  s3 == [s2 EXCEPT !.node = repositionChildrenInParent(
                                               updateParentHeight(@, parent), parent)]
                  s4 == [s3 EXCEPT !.node[d].x = x - s.offsetX, !.node[d].y = y - s.offsetY]
              IN draw([s4 EXCEPT !.draggingFile = Null])
         ELSE draw([s EXCEPT !.draggingFile = Null])

(* mutation: a drop puts the dragged component first among the target's   *)
(* children                                                                *)
mouseupSingleDrag_dropsFirst(s, x, y) ==
  LET d == s.draggingFile
      dropTarget == dropTargetOf(s, x, y)
      currentParentInfo == findParentOfComponent(s.node, d, s.files, Null)
      parent == currentParentInfo.parent
      hasParent == parent # Null /\ parent # Undefined
  IN IF dropTarget # Null
       THEN LET r == removeFile(Scene(s), d, IF hasParent THEN parent ELSE Null)
            IN IF r.status = "throw" THEN s
               ELSE LET s1 == WithScene(s, r.scene)
                        s2 == IF hasParent
                                THEN [s1 EXCEPT !.node = repositionChildrenInParent(
                                                            updateParentHeight(@, parent), parent)]
                                ELSE s1
                        s3 == [s2 EXCEPT !.node[dropTarget].children = <<d>> \o @]
                        s4 == [s3 EXCEPT !.node = repositionChildrenInParent(@, dropTarget)]
                    IN IF cyclic(s3.node, dropTarget) THEN s3
                       ELSE draw([s4 EXCEPT !.draggingFile = Null])
       ELSE IF d \notin Range(s.files) /\ hasParent
         THEN LET s1 == WithScene(s, removeFile(Scene(s), d, parent).scene)
                  s2 == [s1 EXCEPT !.files = Append(@, d)]
                  s3 == [s2 EXCEPT !.node = repositionChildrenInParent(
                                               updateParentHeight(@, parent), parent)]
                  s4 == [s3 EXCEPT !.node[d].x = x - s.offsetX, !.node[d].y = y - s.offsetY]
              IN draw([s4 EXCEPT !.draggingFile = Null])
         ELSE draw([s EXCEPT !.draggingFile = Null])

(* mutation: a promoted component is put first in the top-level list *)
mouseupSingleDrag_promotesFirst(s, x, y) ==
  LET d == s.draggingFile
      dropTarget == dropTargetOf(s, x, y)
      currentParentInfo == findParentOfComponent(s.node, d, s.files, Null)
      parent == currentParentInfo.parent
      hasParent == parent # Null /\ parent # Undefined
  IN IF dropTarget # Null
       THEN LET r == removeFile(Scene(s), d, IF hasParent THEN parent ELSE Null)
            IN IF r.status = "throw" THEN s
               ELSE LET s1 == WithScene(s, r.scene)
                        s2 == IF hasParent
                                THEN [s1 EXCEPT !.node = repositionChildrenInParent(
                                                            updateParentHeight(@, parent), parent)]
                                ELSE s1
                        s3 == [s2 EXCEPT !.node[dropTarget].children = Append(@, d)]
                        s4 == [s3 EXCEPT !.node = repositionChildrenInParent(@, dropTarget)]
                    IN IF cyclic(s3.node, dropTarget) THEN s3
                       ELSE draw([s4 EXCEPT !.draggingFile = Null])
       ELSE IF d \notin Range(s.files) /\ hasParent
         THEN LET s1 == WithScene(s, removeFile(Scene(s), d, parent).scene)
                  s2 == [s1 EXCEPT !.files = <<d>> \o @]
                  s3 == [s2 EXCEPT !.node = repositionChildrenInParent(
                                               updateParentHeight(@, parent), parent)]
                  s4 == [s3 EXCEPT !.node[d].x = x - s.offsetX, !.node[d].y = y - s.offsetY]
              IN draw([s4 EXCEPT !.draggingFile = Null])
         ELSE draw([s EXCEPT !.draggingFile = Null])

(* mouseup that ends the drag of a single component; s is the state after  *)
(* saveState                                                               *)
mouseupSingleDrag(s, x, y) ==
  LET d == s.draggingFile
      dropTarget == dropTargetOf(s, x, y)
      currentParentInfo == findParentOfComponent(s.node, d, s.files, Null)
      parent == currentParentInfo.parent
      hasParent == parent # Null /\ parent # Undefined
  IN IF dropTarget # Null
       THEN LET r == removeFile(Scene(s), d, IF hasParent THEN parent ELSE Null)
            IN IF r.status = "throw" THEN s
               ELSE LET s1 == WithScene(s, r.scene)
                        s2 == IF hasParent
                                THEN [s1 EXCEPT !.node = repositionChildrenInParent(
                                                            updateParentHeight(@, parent), parent)]
                                ELSE s1
                        s3 == [s2 EXCEPT !.node[dropTarget].children = Append(@, d)]
                        s4 == [s3 EXCEPT !.node = repositionChildrenInParent(@, dropTarget)]
                    IN IF cyclic(s3.node, dropTarget) THEN s3
                       ELSE draw([s4 EXCEPT !.draggingFile = Null])
       ELSE IF d \notin Range(s.files) /\ hasParent
         THEN LET s1 == WithScene(s, removeFile(Scene(s), d, parent).scene)
                  s2 == [s1 EXCEPT !.files = Append(@, d)]
                  s3 == [s2 EXCEPT !.node = repositionChildrenInParent(
                                               updateParentHeight(@, parent), parent)]
                  s4 == [s3 EXCEPT !.node[d].x = x - s.offsetX, !.node[d].y = y - s.offsetY]
              IN draw([s4 EXCEPT !.draggingFile = Null])
         ELSE draw([s EXCEPT !.draggingFile = Null])

(* mutation: the end of a group drag looks for a drop target as well *)
mouseup_groupDrops(s, x, y, ctrl) ==
  IF s.isAreaSelecting THEN mouseupAreaSelection(s, ctrl)
  ELSE IF s.draggingFile = Null THEN s
  ELSE mouseupSingleDrag(saveState(s), x, y)

mouseup(s, x, y, ctrl) ==
  IF s.isAreaSelecting THEN mouseupAreaSelection(s, ctrl)
  ELSE IF s.draggingFile = Null THEN s
  ELSE IF Len(s.multiSelectedFiles) > 0 THEN draw([saveState(s) EXCEPT !.draggingFile = Null])
  ELSE mouseupSingleDrag(saveState(s), x, y)

inToggleArea(h, f, x, y) ==
  /\ x >= h[f].x + TOGGLE_AREA_X /\ x <= h[f].x + TOGGLE_AREA_X + TOGGLE_AREA_W
  /\ y >= h[f].y + TOGGLE_AREA_X /\ y <= h[f].y + TOGGLE_AREA_X + TOGGLE_AREA_W

toggleTarget(s, x, y) ==
  FirstNonNull([i \in 1..Len(s.files) |-> IF inToggleArea(s.node, s.files[i], x, y) THEN s.files[i] ELSE Null])

isToggleAt(s, x, y) == toggleTarget(s, x, y) # Null

(* toggleAt: [state, result], result "true", "false" or "throw" (an event  *)
(* box has no children list to take the length of)                         *)
toggleAt(s, x, y) ==
  LET file == toggleTarget(s, x, y) IN
  IF file = Null THEN [state |-> s, result |-> "false"]
  ELSE LET flipped == [s EXCEPT !.node[file].expanded = ~@] IN
       IF flipped.node[file].expanded /\ flipped.node[file].isEventBox
         THEN [state |-> flipped, result |-> "throw"]
         ELSE LET placed == IF flipped.node[file].expanded /\ hasChildren(flipped.node, file)
                              THEN [flipped EXCEPT !.node = repositionChildrenInParent(@, file)]
                              ELSE flipped
                  stop == FirstNonNull([i \in 1..Len(s.files) |->
                             IF placed.node[s.files[i]].expanded /\ placed.node[s.files[i]].isEventBox
                               THEN i ELSE Null])
                  upto == IF stop = Null THEN s.files ELSE SubSeq(s.files, 1, stop - 1)
              IN [state |-> [placed EXCEPT !.node = updateAllParentHeights(@, upto)],
                  result |-> IF stop = Null THEN "true" ELSE "throw"]

(* duplicateComponent always ends in a TypeError: findParentOfComponent    *)
(* returns an object, never a list, and the object has no push method;     *)
(* nothing of the scene has changed by then                                *)
duplicateComponent(s, originalFile, x, y) == s

click(s, x, y, ctrl) ==
  LET t == toggleAt(s, x, y) IN
  IF t.result = "throw" THEN t.state
  ELSE IF t.result = "true" THEN draw(saveState(t.state))
  ELSE IF ctrl /\ hit(s, x, y) # Null /\ Len(s.multiSelectedFiles) = 0
    THEN duplicateComponent(saveState(s), hit(s, x, y), x, y)
  ELSE draw([s EXCEPT !.drawerOpen = IF Len(s.multiSelectedFiles) = 0 THEN s.selectedFile # Null ELSE @])

toggleConnectionMode(s) ==
  draw(IF ~s.isConnecting
         THEN [s EXCEPT !.isConnecting = TRUE, !.connectionStart = Null, !.selectedFile = Null,
                        !.selectedChild = Null, !.selectedConnection = NoConnection]
         ELSE resetConnectionMode([s EXCEPT !.isConnecting = FALSE]))

deleteSelectedConnection(s) ==
  LET s1 == saveState(s) IN
  draw([s1 EXCEPT !.connections = SelectSeq(@, LAMBDA c : c # s.selectedConnection),
                  !.selectedConnection = NoConnection])

deleteOne(s, component) ==
  LET parentInfo == findParentOfComponent(s.node, component, s.files, Null)
      parent == parentInfo.parent
      s1 == IF parent # Null /\ parent # Undefined
              THEN [s EXCEPT !.node = repositionChildrenInParent(updateParentHeight(
                        [@ EXCEPT ![parent].children = RemoveAt(@, IndexOf(@, component))], parent), parent)]
              ELSE IF component \in Range(s.files)
                THEN [s EXCEPT !.files = RemoveAt(@, IndexOf(@, component))]
                ELSE s
  IN [s1 EXCEPT !.connections = connectionsWithout(@, component)]

RECURSIVE deleteEach(_, _)
deleteEach(s, comps) ==
  IF comps = <<>> THEN s ELSE deleteEach(deleteOne(s, Head(comps)), Tail(comps))

deleteMultiSelection(s) ==
  draw([clearSelection(deleteEach(saveState(s), s.multiSelectedFiles)) EXCEPT !.drawerOpen = FALSE])

(* mutation: the snapshot is taken after the removal *)
deleteSelectedFile_savesAfter(s) ==
  LET r == removeFile(Scene(s), s.selectedFile, Null)
  IN IF r.status = "throw" THEN s
     ELSE draw([clearSelection(saveState(WithScene(s, r.scene))) EXCEPT !.drawerOpen = FALSE])

deleteSelectedFile(s) ==
  LET s1 == saveState(s)
      r == removeFile(Scene(s1), s.selectedFile, Null)
  IN IF r.status = "throw" THEN s1
     ELSE draw([clearSelection(WithScene(s1, r.scene)) EXCEPT !.drawerOpen = FALSE])

keydownDelete(s) ==
  IF s.selectedConnection # NoConnection THEN deleteSelectedConnection(s)
  ELSE IF Len(s.multiSelectedFiles) > 0 THEN deleteMultiSelection(s)
  ELSE IF s.selectedFile # Null THEN deleteSelectedFile(s)
  ELSE s

keydownEscape(s) ==
  draw([(IF s.isConnecting THEN resetConnectionMode(s) ELSE s) EXCEPT
          !.selectedFile = Null, !.selectedChild = Null, !.selectedConnection = NoConnection,
          !.multiSelectedFiles = <<>>, !.drawerOpen = FALSE])

clearCanvas(s) ==
  draw(clearSelection([saveState(s) EXCEPT !.files = <<>>, !.connections = <<>>]))

(***************************************************************************)
(* Configuration drawer operations on the selected component.              *)
(***************************************************************************)
relayoutSelected(s) ==
  LET sel == s.selectedFile
      s1 == [s EXCEPT !.node = updateParentHeight(@, sel)]
      parent == findParentOfComponent(s1.node, sel, s1.files, Null).parent
  IN draw(IF parent # Null /\ parent # Undefined
            THEN [s1 EXCEPT !.node = repositionChildrenInParent(@, parent)]
            ELSE s1)

updateComponentName(s, newName) ==
  IF s.selectedFile = Null THEN s
  ELSE IF newName # "" /\ newName # s.node[s.selectedFile].name
    THEN draw([saveState(s) EXCEPT !.node[s.selectedFile].name = newName])
    ELSE s

addProp(s) ==
  IF s.selectedFile = Null THEN s
  ELSE relayoutSelected([s EXCEPT !.node[s.selectedFile].props = Append(@, [name |-> "", value |-> ""])])

updateProp(s, index, field, value) ==
  IF s.selectedFile = Null \/ index > Len(s.node[s.selectedFile].props) THEN s
  ELSE relayoutSelected(
         IF field = "name"
           THEN [saveState(s) EXCEPT !.node[s.selectedFile].props[index].name = value]
           ELSE [saveState(s) EXCEPT !.node[s.selectedFile].props[index].value = value])

removeProp(s, index) ==
  IF s.selectedFile = Null \/ s.node[s.selectedFile].isEventBox THEN s
  ELSE relayoutSelected([saveState(s) EXCEPT
         !.node[s.selectedFile].props = IF index <= Len(@) THEN RemoveAt(@, index) ELSE @])

(* createHookFromInput (type HOOK, offsetY 0) and createTriggerFromInput   *)
(* (type TRIGGER, offsetY 60), with the default name                       *)
createEventBoxFromInput(s, type, now) ==
  IF s.selectedFile = Null THEN s
  ELSE LET sel == s.node[s.selectedFile]
           box == NewNodeId(s)
           s1 == saveState(s)
       IN draw([s1 EXCEPT
            !.node = (box :> createEventBox(IF type = HOOK THEN DefaultHookName ELSE DefaultTriggerName,
                                            sel.x + sel.w + EVENT_BOX_OFFSET_X,
                                            sel.y + (IF type = HOOK THEN 0 ELSE TRIGGER_OFFSET_Y),
                                            type)) @@ @,
            !.files = Append(@, box),
            !.connections = Append(@, [oid |-> NewConnId(s), id |-> now,
                                       from |-> s.selectedFile, to |-> box])])

(* removeConnectedHook / removeConnectedTrigger (the same code) *)
removeConnectedEventBox(s, connectionId) ==
  LET s1 == saveState(s)
      connectionIndex == FirstNonNull([i \in 1..Len(s.connections) |->
                            IF s.connections[i].id = connectionId THEN i ELSE Null])
  IN IF connectionIndex = Null THEN s1
     ELSE LET connection == s.connections[connectionIndex]
          IN draw([s1 EXCEPT
               !.files = IF connection.to \in Range(@) THEN RemoveAt(@, IndexOf(@, connection.to)) ELSE @,
               !.connections = RemoveAt(@, connectionIndex)])

(***************************************************************************)
(* The state machine.  The mouse follows the browser's protocol: mousedown, *)
(* mousemove while the button is held, mouseup where the pointer is, then  *)
(* the click; keys and the drawer are used while the button is up.  The    *)
(* pointer goes down on the grab point of a component (5 pixels inside its *)
(* top-left corner), on the toggle of a top-level component or on an empty *)
(* canvas point, and a component is dragged by its grab point.             *)
(***************************************************************************)
FixedPoints == {<<305, 55>>, <<700, 180>>}

CreatePoints == {<<50, 50>>, <<300, 50>>}

GrabPoint(h, n) == <<h[n].x + 5, h[n].y + 5>>

TogglePoint(h, n) == <<h[n].x + 10, h[n].y + 10>>

Idle == [phase |-> "idle", x |-> 0, y |-> 0, ctrl |-> FALSE]

Drawn == TreeNodes(node, files)

(* the components the pointer meets at their grab point *)
Grabbable == {n \in Drawn : hit(Cur, GrabPoint(node, n)[1], GrabPoint(node, n)[2]) = n}

GrabPoints == {GrabPoint(node, n) : n \in Grabbable}

TogglePoints ==
  {p \in {TogglePoint(node, files[i]) : i \in 1..Len(files)} : isToggleAt(Cur, p[1], p[2])}

EmptyPoints == {p \in FixedPoints : hit(Cur, p[1], p[2]) = Null /\ ~isToggleAt(Cur, p[1], p[2])}

(* where a drag goes: a fixed point, another top-level component, or (one  *)
(* component dragged alone) a nested component outside the dragged subtree *)
MovePoints ==
  IF draggingFile = Null THEN FixedPoints
  ELSE FixedPoints \cup
       {GrabPoint(node, n) : n \in {m \in Grabbable :
           /\ m # draggingFile
           /\ ~node[m].isEventBox
           /\ \/ m \in Range(files)
              \/ /\ multiSelectedFiles = <<>>
                 /\ ~node[draggingFile].isEventBox
                 /\ m \notin Reach(node, {draggingFile})}}

(* a handler that starts or completes a user operation *)
Commit(s, l, m) == Put(s, l, SceneJSON(Cur), m)

(* a handler within a mouse gesture: the operation started at the mousedown *)
CommitDrag(s, l, m) == Put(s, l, pre, m)

(* a handler that completes no operation *)
CommitView(s, m) == Put(s, Op("view", 0, 0), SceneJSON(s), m)

(* the values the script's variables are declared with *)
Fresh ==
  [node |-> EmptyHeap, files |-> <<>>, connections |-> <<>>, history |-> <<>>,
   draggingFile |-> Null, offsetX |-> 0, offsetY |-> 0,
   selectedFile |-> Null, selectedChild |-> Null, multiSelectedFiles |-> <<>>,
   isAreaSelecting |-> FALSE, selectionAreaStart |-> <<0, 0>>, selectionAreaEnd |-> <<0, 0>>,
   isConnecting |-> FALSE, connectionStart |-> Null, selectedConnection |-> NoConnection,
   drawerOpen |-> FALSE,
   localStorage |-> <<>>, url |-> <<>>, timeouts |-> {},
   urlUpdateTimeout |-> Uninitialized, isInitialLoad |-> FALSE]

Component(name, x, y, children) == [createNewComponent(name, x, y) EXCEPT !.children = children]

(* a scene on the canvas, nothing selected *)
OnCanvas(h, fs, conns) == draw([Fresh EXCEPT !.node = h, !.files = fs, !.connections = conns])

Nested ==
  OnCanvas(<<Component("Beta", 50, 50, <<2>>), Component("Alpha", 50, 50, <<>>)>>, <<1>>, <<>>)

Single == OnCanvas(<<Component("Alpha", 50, 50, <<>>)>>, <<1>>, <<>>)

(* Scenes an earlier session of the program ended with:                    *)
(*  - nothing;                                                             *)
(*  - Alpha dropped into Beta;                                             *)
(*  - Alpha and Beta side by side;                                         *)
(*  - Alpha, then Beta, Beta given a hook, Beta dropped into Alpha and     *)
(*    dragged out again to the canvas, Alpha dropped into Beta: the hook   *)
(*    box now precedes Beta in the top-level list;                         *)
(*  - Alpha dropped into Beta, Alpha selected and given a hook;            *)
(*  - Alpha selected and given two hooks, one after the other.             *)
EarlierScenes ==
  { Fresh,
    Nested,
    OnCanvas(<<Component("Alpha", 50, 50, <<>>), Component("Beta", 300, 50, <<>>)>>, <<1, 2>>, <<>>),
    OnCanvas(<<createEventBox(DefaultHookName, 750, 50, HOOK),
               Component("Beta", 695, 175, <<3>>), Component("Alpha", 50, 50, <<>>)>>,
             <<1, 2>>, <<[oid |-> 1, id |-> 1, from |-> 2, to |-> 1]>>),
    createEventBoxFromInput([Nested EXCEPT !.selectedFile = 2], HOOK, 1),
    createEventBoxFromInput(createEventBoxFromInput([Single EXCEPT !.selectedFile = 1], HOOK, 1),
                            HOOK, 2) }

(* what the last write of that session stored (saveToLocalStorage and    *)
(* saveToURL store the same project)                                       *)
SavedProjects == {SceneJSON(sc) : sc \in EarlierScenes}

(* the files and connections of a stored project replace the script's *)
loadProject(s, projectData) ==
  LET parsed == ParseList(projectData.files, SortedSeq(NodeIds)) IN
  [s EXCEPT !.node = parsed.heap,
            !.files = parsed.ids,
            !.connections = reconstructConnections(projectData.connections, parsed.heap,
                                                   parsed.ids, SortedSeq(ConnIds))]

(* each returns the state it leaves and whether it loaded a project *)
loadFromLocalStorage(s) ==
  IF s.localStorage # <<>> THEN [state |-> loadProject(s, s.localStorage[1]), result |-> TRUE]
  ELSE [state |-> s, result |-> FALSE]

loadFromURL(s) ==
  IF s.url # <<>> THEN [state |-> loadProject(s, s.url[1]), result |-> TRUE]
  ELSE [state |-> s, result |-> FALSE]

(* The script's top level, on a page whose URL and local storage hold      *)
(* urlState and stored.  The initial draw comes before the declaration of  *)
(* urlUpdateTimeout: when nothing was loaded from the URL it throws and    *)
(* the rest of the script (the declaration, the listeners of the canvas,   *)
(* of the keyboard and of beforeunload) is not evaluated.                  *)
topLevel(urlState, stored) ==
  LET fromURL == loadFromURL([Fresh EXCEPT !.url = urlState, !.localStorage = stored])
      loaded == IF fromURL.result THEN fromURL.state ELSE loadFromLocalStorage(fromURL.state).state
      initial == [loaded EXCEPT !.isInitialLoad = fromURL.result]
  IN IF drawThrows(initial) THEN [state |-> draw(initial), page |-> "aborted"]
     ELSE [state |-> [draw(initial) EXCEPT !.urlUpdateTimeout = Null], page |-> "running"]

(* the variables hold the state s of a page; the user makes up to `inputs` *)
(* inputs                                                                  *)
Start(s, pageState, inputs) ==
  /\ node = s.node
  /\ files = s.files
  /\ connections = s.connections
  /\ history = s.history
  /\ draggingFile = s.draggingFile
  /\ offsetX = s.offsetX
  /\ offsetY = s.offsetY
  /\ selectedFile = s.selectedFile
  /\ selectedChild = s.selectedChild
  /\ multiSelectedFiles = s.multiSelectedFiles
  /\ isAreaSelecting = s.isAreaSelecting
  /\ selectionAreaStart = s.selectionAreaStart
  /\ selectionAreaEnd = s.selectionAreaEnd
  /\ isConnecting = s.isConnecting
  /\ connectionStart = s.connectionStart
  /\ selectedConnection = s.selectedConnection
  /\ drawerOpen = s.drawerOpen
  /\ pointer = Idle
  /\ steps = inputs
  /\ last = Op("load", 0, 0)
  /\ pre = SceneJSON(s)
  /\ localStorage = s.localStorage
  /\ url = s.url
  /\ timeouts = s.timeouts
  /\ urlUpdateTimeout = s.urlUpdateTimeout
  /\ isInitialLoad = s.isInitialLoad
  /\ page = pageState

(* the page just loaded *)
Boot(urlState, stored, inputs) ==
  Start(topLevel(urlState, stored).state, topLevel(urlState, stored).page, inputs)

(* the page opened at a URL that carries projectData (a link written by    *)
(* shareProject, or the URL an earlier session left), nothing in local     *)
(* storage (the initial draw overwrites what is there)                     *)
Load(projectData, inputs) == Boot(<<projectData>>, <<>>, inputs)

Init == \E projectData \in SavedProjects : Load(projectData, MaxSteps)

(* double click on empty canvas, a name typed, Enter *)
CreateComponent ==
  /\ pointer.phase = "idle"
  /\ FreeNodeIds(Cur) # <<>>
  /\ \E name \in Names, p \in CreatePoints :
        /\ ~isToggleAt(Cur, p[1], p[2])
        /\ hit(Cur, p[1], p[2]) = Null
        /\ Commit(finishInput(Cur, name, p[1], p[2]), Op("create", 0, 0), Idle)

Down(p, ctrl) == [phase |-> "down", x |-> p[1], y |-> p[2], ctrl |-> ctrl]

MouseDownConnecting ==
  /\ pointer.phase = "idle"
  /\ isConnecting
  /\ FreeConnIds(Cur) # <<>>
  /\ \E p \in GrabPoints \cup EmptyPoints, now \in Timestamps :
        IF connectionStart # Null /\ hit(Cur, p[1], p[2]) \notin {Null, connectionStart}
          THEN Commit(mousedownConnecting(Cur, p[1], p[2], now),
                      Op(IF Len(mousedownConnecting(Cur, p[1], p[2], now).connections) = Len(connections)
                           THEN "connectNone" ELSE "connect",
                         connectionStart, hit(Cur, p[1], p[2])),
                      Down(p, FALSE))
          ELSE CommitView(mousedownConnecting(Cur, p[1], p[2], now), Down(p, FALSE))

(* mousedown on the line of a connection, away from every component *)
MouseDownConnection ==
  /\ pointer.phase = "idle"
  /\ ~isConnecting
  /\ \E i \in 1..Len(connections) :
        CommitView(mousedownConnection(Cur, connections[i]), Down(<<0, 0>>, FALSE))

MouseDown ==
  /\ pointer.phase = "idle"
  /\ ~isConnecting
  /\ \E p \in GrabPoints \cup TogglePoints \cup EmptyPoints, ctrl \in BOOLEAN :
        /\ ctrl => p \in GrabPoints /\ Len(multiSelectedFiles) < MaxSelected
        /\ Commit(mousedownCanvas(Cur, p[1], p[2], ctrl), Op("view", 0, 0), Down(p, ctrl))

MouseMove ==
  \/ /\ pointer.phase = "idle"
     /\ CommitView(mousemove(Cur, 0, 0, TRUE), pointer)
  \/ /\ pointer.phase = "down"
     /\ draggingFile # Null => offsetX = 5 /\ offsetY = 5 /\ Len(multiSelectedFiles) <= 1
     /\ draggingFile # Null \/ isAreaSelecting
     /\ \E p \in MovePoints :
           CommitDrag(mousemove(Cur, p[1], p[2], TRUE), Op("view", 0, 0),
                      [pointer EXCEPT !.x = p[1], !.y = p[2]])

MouseUp ==
  /\ pointer.phase = "down"
  /\ CommitDrag(mouseup(Cur, pointer.x, pointer.y, pointer.ctrl),
                IF draggingFile # Null /\ ~isAreaSelecting
                  THEN Op("mouseup", draggingFile,
                          IF Len(multiSelectedFiles) > 0 THEN Null
                          ELSE dropTargetOf(Cur, pointer.x, pointer.y))
                  ELSE last,
                [pointer EXCEPT !.phase = "up"])

Click ==
  /\ pointer.phase = "up"
  /\ IF isToggleAt(Cur, pointer.x, pointer.y)
       THEN Commit(click(Cur, pointer.x, pointer.y, pointer.ctrl), Op("toggle", 0, 0), Idle)
     ELSE IF pointer.ctrl /\ hit(Cur, pointer.x, pointer.y) # Null /\ Len(multiSelectedFiles) = 0
       THEN Commit(click(Cur, pointer.x, pointer.y, pointer.ctrl),
                   Op("duplicate", hit(Cur, pointer.x, pointer.y),
                      findParentOfComponent(node, hit(Cur, pointer.x, pointer.y), files, Null).parent),
                   Idle)
     ELSE Put(click(Cur, pointer.x, pointer.y, pointer.ctrl), last, pre, Idle)

(* a key pressed while the button is up, or while a component is dragged *)
KeyTime == pointer.phase = "idle" \/ (pointer.phase = "down" /\ draggingFile # Null)

KeyUndo ==
  /\ KeyTime
  /\ CanUndo(Cur)
  /\ Put(undo(Cur), [op |-> "undo", a |-> last.a, b |-> last.b, of |-> last.op], pre, pointer)

KeyC ==
  /\ pointer.phase = "idle"
  /\ CommitView(toggleConnectionMode(Cur), Idle)

KeyDelete ==
  /\ KeyTime
  /\ IF selectedConnection # NoConnection THEN Commit(keydownDelete(Cur), Op("deleteConnection", 0, 0), pointer)
     ELSE IF Len(multiSelectedFiles) > 0 THEN Commit(keydownDelete(Cur), Op("deleteMulti", 0, 0), pointer)
     ELSE IF selectedFile # Null THEN Commit(keydownDelete(Cur), Op("delete", selectedFile, 0), pointer)
     ELSE Commit(keydownDelete(Cur), Op("deleteNone", 0, 0), pointer)

KeyEscape ==
  /\ pointer.phase = "idle"
  /\ CommitView(keydownEscape(Cur), Idle)

ClearCanvas ==
  /\ pointer.phase = "idle"
  /\ Commit(clearCanvas(Cur), Op("clearCanvas", 0, 0), Idle)

(* the configuration drawer shows the selected component *)
DrawerOnComponent ==
  /\ pointer.phase = "idle"
  /\ drawerOpen
  /\ selectedFile # Null
  /\ ~node[selectedFile].isEventBox

UpdateComponentName ==
  /\ DrawerOnComponent
  /\ \E newName \in Names :
        Commit(updateComponentName(Cur, newName), Op("updateComponentName", 0, 0), Idle)

AddProp ==
  /\ DrawerOnComponent
  /\ Len(node[selectedFile].props) < MaxProps
  /\ Commit(addProp(Cur), Op("addProp", 0, 0), Idle)

UpdateProp ==
  /\ DrawerOnComponent
  /\ \E index \in 1..Len(node[selectedFile].props), field \in {"name", "value"}, value \in PropTexts :
        Commit(updateProp(Cur, index, field, value), Op("updateProp", 0, 0), Idle)

RemoveProp ==
  /\ DrawerOnComponent
  /\ \E index \in 1..Len(node[selectedFile].props) :
        Commit(removeProp(Cur, index), Op("removeProp", 0, 0), Idle)

CreateEventBox ==
  /\ DrawerOnComponent
  /\ FreeNodeIds(Cur) # <<>>
  /\ FreeConnIds(Cur) # <<>>
  /\ \E type \in {HOOK, TRIGGER}, now \in Timestamps :
        Commit(createEventBoxFromInput(Cur, type, now), Op("createEventBox", 0, 0), Idle)

(* the drawer lists the event boxes connected to the component it shows *)
RemoveConnectedEventBox ==
  /\ DrawerOnComponent
  /\ \E i \in 1..Len(connections) :
        /\ connections[i].from = selectedFile
        /\ node[connections[i].to].isEventBox
        /\ Commit(removeConnectedEventBox(Cur, connections[i].id), Op("removeConnectedEventBox", 0, 0), Idle)

Next ==
  \/ CreateComponent
  \/ MouseDownConnecting
  \/ MouseDownConnection
  \/ MouseDown
  \/ MouseMove
  \/ MouseUp
  \/ Click
  \/ KeyUndo
  \/ KeyC
  \/ KeyDelete
  \/ KeyEscape
  \/ ClearCanvas
  \/ UpdateComponentName
  \/ AddProp
  \/ UpdateProp
  \/ RemoveProp
  \/ CreateEventBox
  \/ RemoveConnectedEventBox

Spec == Init /\ [][Next]_vars

(***************************************************************************)
(* The history specification: one component is dragged back and forth      *)
(* between the two fixed points (each release pushes one snapshot) until   *)
(* the history is full and beyond; once it is full, undo is used as well.  *)
(***************************************************************************)
InitHistory == Load(SceneJSON(Single), MaxHistorySteps)

HistoryPress ==
  /\ pointer.phase = "idle"
  /\ \E p \in GrabPoints :
        Commit(mousedownCanvas(Cur, p[1], p[2], FALSE), Op("view", 0, 0), Down(p, FALSE))

HistoryDrag ==
  /\ pointer.phase = "down"
  /\ draggingFile # Null
  /\ SceneJSON(Cur) = pre
  /\ \E p \in FixedPoints \ {<<pointer.x, pointer.y>>} :
        CommitDrag(mousemove(Cur, p[1], p[2], TRUE), Op("view", 0, 0),
                   [pointer EXCEPT !.x = p[1], !.y = p[2]])

HistoryRelease ==
  /\ SceneJSON(Cur) # pre
  /\ MouseUp

HistoryUndo ==
  /\ pointer.phase = "idle"
  /\ Len(history) = maxHistorySize
  /\ KeyUndo

NextHistory ==
  \/ HistoryPress
  \/ HistoryDrag
  \/ HistoryRelease
  \/ Click
  \/ HistoryUndo

SpecHistory == InitHistory /\ [][NextHistory]_vars

(***************************************************************************)
(* The hit-test specification: the pointer works on scenes in which boxes  *)
(* overlap or are hidden, as earlier sessions can leave them:              *)
(*  - Alpha dropped into Beta;                                             *)
(*  - Alpha dropped into Beta, and a second Alpha dragged (grabbed near    *)
(*    its corner, released just left of Beta, so on no drop target) to     *)
(*    where its box covers part of Beta and of the nested Alpha;           *)
(*  - Alpha, and Beta dragged likewise to cover part of Alpha;             *)
(*  - Alpha dropped into Beta, Beta given a hook, Beta collapsed: the hook *)
(*    box is not drawn;                                                    *)
(*  - a hook box ahead of Beta in the top-level list, Alpha inside Beta;   *)
(*  - Beta dropped into Alpha, Alpha dropped into a second Beta.           *)
(***************************************************************************)
HitTestScenes ==
  { Nested,
    OnCanvas(<<Component("Beta", 50, 50, <<2>>), Component("Alpha", 50, 50, <<3>>),
               Component("Beta", 50, 50, <<>>)>>, <<1>>, <<>>),
    OnCanvas(<<Component("Beta", 50, 50, <<2>>), Component("Alpha", 50, 50, <<>>),
               Component("Alpha", 40, 80, <<>>)>>, <<1, 3>>, <<>>),
    OnCanvas(<<Component("Alpha", 50, 50, <<>>), Component("Beta", 40, 80, <<>>)>>, <<1, 2>>, <<>>),
    click(createEventBoxFromInput([Nested EXCEPT !.selectedFile = 1], HOOK, 1), 60, 60, FALSE),
    OnCanvas(<<createEventBox(DefaultHookName, 750, 50, HOOK),
               Component("Beta", 695, 175, <<3>>), Component("Alpha", 50, 50, <<>>)>>,
             <<1, 2>>, <<[oid |-> 1, id |-> 1, from |-> 2, to |-> 1]>>) }

InitHitTest == \E sc \in HitTestScenes : Load(SceneJSON(sc), MaxHitSteps)

NextHitTest ==
  \/ MouseDown
  \/ MouseMove
  \/ MouseUp
  \/ Click

SpecHitTest == InitHitTest /\ [][NextHitTest]_vars

(***************************************************************************)
(* The persistence specification: the scene machine together with the      *)
(* passing of time (in steps of 100 ms, the shortest delay of the script), *)
(* the resize of the window and the leaving of the page, on pages loaded   *)
(* with and without a project in the URL and in local storage.  In the     *)
(* specifications above no time passes between the load and the inputs.    *)
(***************************************************************************)
(* the timeouts that are due within the next 100 ms run, the others are    *)
(* 100 ms nearer                                                           *)
runTimeouts(s) ==
  IF \E t \in s.timeouts : t[2] <= INITIAL_LOAD_DELAY
    THEN [saveToURL(s) EXCEPT !.urlUpdateTimeout = Null,
                              !.timeouts = {<<t[1], t[2] - INITIAL_LOAD_DELAY>> :
                                              t \in {u \in @ : u[2] > INITIAL_LOAD_DELAY}}]
    ELSE [s EXCEPT !.timeouts = {<<t[1], t[2] - INITIAL_LOAD_DELAY>> : t \in @}]

(* 100 ms pass without an input, and the timeouts that are due run: the    *)
(* one set at the top level (after 100 ms) and the one of saveToURLAsync   *)
TimePasses ==
  /\ page = "running"
  /\ pointer.phase # "up"
  /\ Store(runTimeouts([Cur EXCEPT !.isInitialLoad = FALSE]), Op("time", 0, 0), pre, pointer, 0)
  /\ page' = page

(* the listener of resize is added before the initial draw *)
WindowResize ==
  /\ page \in {"running", "aborted"}
  /\ pointer.phase = "idle"
  /\ Store(draw(Cur), Op("resize", 0, 0), SceneJSON(Cur), pointer, 1)
  /\ page' = page

(* mutation: the pending timeout is cancelled and nothing is written *)
beforeunload_onlyCancels(s) == [s EXCEPT !.timeouts = clearTimeout(@, s.urlUpdateTimeout)]

(* the listener of beforeunload, the last statement of the script *)
beforeunload(s) ==
  IF s.urlUpdateTimeout # Null
    THEN saveToURL([s EXCEPT !.timeouts = clearTimeout(@, s.urlUpdateTimeout)])
    ELSE s

(* the page is left *)
BeforeUnload ==
  /\ page \in {"running", "aborted"}
  /\ pointer.phase = "idle"
  /\ Store(IF page = "running" THEN beforeunload(Cur) ELSE Cur,
           Op("beforeunload", 0, 0), pre, pointer, 0)
  /\ page' = "unloaded"

InitPersistence ==
  \E urlState \in {<<>>} \cup {<<projectData>> : projectData \in SavedProjects},
     stored \in {<<>>, <<SceneJSON(Nested)>>} :
       Boot(urlState, stored, MaxPersistSteps)

(* every input of the scene machine that fits in a session of two inputs   *)
(* (a prop is updated or removed with the third input at the earliest)     *)
NextPersistence ==
  \/ CreateComponent
  \/ MouseDownConnecting
  \/ MouseDownConnection
  \/ MouseDown
  \/ MouseMove
  \/ MouseUp
  \/ Click
  \/ KeyUndo
  \/ KeyC
  \/ KeyDelete
  \/ KeyEscape
  \/ ClearCanvas
  \/ UpdateComponentName
  \/ AddProp
  \/ CreateEventBox
  \/ RemoveConnectedEventBox
  \/ TimePasses
  \/ WindowResize
  \/ BeforeUnload

SpecPersistence == InitPersistence /\ [][NextPersistence]_vars

(***************************************************************************)
(* The layout specification: updateParentHeight applied to one top-level   *)
(* component (object 1) as its content changes: a prop is added (addProp), *)
(* a child is appended (the drop of mouseup), the component is collapsed   *)
(* or expanded (toggleAt); after each change its height is recomputed, as  *)
(* the handlers do.  The component starts with any combination of props,   *)
(* inner content, hooks, children and expanded flag.                       *)
(***************************************************************************)
InnerHtmls == {<<>>, <<"">>, <<"x">>, <<"x", "", "x">>}

HooksLists == {<<>>, <<"h">>}

PropsLists == {<<>>, <<[name |-> "", value |-> ""]>>}

(* a component with inner content and hooks *)
Filled(c, inner, hooks) == [innerHtml |-> inner, hooks |-> hooks] @@ c

(* the children the component starts with: none, a leaf, a leaf with inner *)
(* content, a child with a child of its own                                *)
ChildHeaps ==
  { <<>>,
    <<Component("Beta", 84, 87, <<>>)>>,
    <<Filled(Component("Beta", 84, 87, <<>>), <<"x", "">>, <<>>)>>,
    <<Component("Beta", 84, 87, <<3>>), Component("Beta", 118, 112, <<>>)>> }

LayoutHeaps ==
  { updateParentHeight(
      <<Filled([Component("Alpha", 50, 50, IF kids = <<>> THEN <<>> ELSE <<2>>)
                  EXCEPT !.props = props, !.expanded = expanded], inner, hooks)>> \o kids, 1) :
      kids \in ChildHeaps, props \in PropsLists, expanded \in BOOLEAN,
      inner \in InnerHtmls, hooks \in HooksLists }

InitLayout ==
  \E h \in LayoutHeaps :
     Start([Fresh EXCEPT !.node = h, !.files = <<1>>, !.urlUpdateTimeout = Null], "running",
           MaxLayoutSteps)

Relayout(h, name) ==
  Put([Cur EXCEPT !.node = updateParentHeight(h, 1)], Op(name, 1, 0), SceneJSON(Cur), Idle)

LayoutAddProp ==
  /\ Len(node[1].props) < MaxLayoutProps
  /\ Relayout([node EXCEPT ![1].props = Append(@, [name |-> "", value |-> ""])], "layoutAddProp")

LayoutAddChild ==
  /\ FreeNodeIds(Cur) # <<>>
  /\ \E props \in PropsLists, inner \in {<<>>, <<"x">>} :
        LET child == FreeNodeIds(Cur)[1] IN
        Relayout((child :> Filled([createNewComponent("Beta", 84, 87) EXCEPT !.props = props],
                                  inner, <<>>))
                    @@ [node EXCEPT ![1].children = Append(@, child)],
                 "layoutAddChild")

LayoutToggle ==
  /\ pointer.phase = "idle"
  /\ Relayout([node EXCEPT ![1].expanded = ~@], "layoutToggle")

NextLayout ==
  \/ LayoutAddProp
  \/ LayoutAddChild
  \/ LayoutToggle

SpecLayout == InitLayout /\ [][NextLayout]_vars

(***************************************************************************)
(* The mode specification: the pointer and the keyboard, with a button     *)
(* that is released outside the canvas.  The mouseup and click listeners   *)
(* are registered on the canvas, so neither runs for such a release; what  *)
(* runs is the mouseleave listener when the pointer leaves the canvas.     *)
(***************************************************************************)
mouseleave(s) == draw(s)

MouseLeave ==
  /\ pointer.phase = "down"
  /\ Put(mouseleave(Cur), Op("mouseleave", 0, 0), pre, Idle)

InitModes == \E projectData \in SavedProjects : Load(projectData, MaxModeSteps)

NextModes ==
  \/ MouseDownConnecting
  \/ MouseDown
  \/ MouseMove
  \/ MouseUp
  \/ Click
  \/ KeyUndo
  \/ KeyC
  \/ KeyDelete
  \/ KeyEscape
  \/ MouseLeave

SpecModes == InitModes /\ [][NextModes]_vars

(***************************************************************************)
(* The area-selection specification: presses on components and on empty    *)
(* canvas, with or without Ctrl/Cmd, moves and releases.  The mouseup      *)
(* listener reads the modifier of the release event: KeyControl is the     *)
(* modifier key going down or up while the button is held (the keydown     *)
(* listener has no branch for that key, and there is no keyup listener).   *)
(***************************************************************************)
MouseDownArea ==
  /\ pointer.phase = "idle"
  /\ ~isConnecting
  /\ \E p \in EmptyPoints :
        Commit(mousedownCanvas(Cur, p[1], p[2], TRUE), Op("view", 0, 0), Down(p, TRUE))

KeyControl ==
  /\ pointer.phase = "down"
  /\ isAreaSelecting
  /\ Put(Cur, last, pre, [pointer EXCEPT !.ctrl = ~@])

(* the scenes of earlier sessions, and one more: Alpha dropped into Beta,  *)
(* a second Alpha dragged below them                                       *)
AreaScenes ==
  EarlierScenes \cup
    {OnCanvas(<<Component("Beta", 50, 50, <<2>>), Component("Alpha", 50, 50, <<>>),
                Component("Alpha", 50, 300, <<>>)>>, <<1, 3>>, <<>>)}

InitArea == \E sc \in AreaScenes : Load(SceneJSON(sc), MaxAreaSteps)

NextArea ==
  \/ MouseDown
  \/ MouseDownArea
  \/ MouseMove
  \/ KeyControl
  \/ MouseUp
  \/ Click

SpecArea == InitArea /\ [][NextArea]_vars

(***************************************************************************)
(* Properties.                                                             *)
(***************************************************************************)
InTree == TreeNodes(node, files)

(* the places that hold n: positions of the top-level list and of the      *)
(* children lists of the nodes of the tree                                 *)
Occurrences(n) ==
  Cardinality({i \in 1..Len(files) : files[i] = n})
    + Cardinality({ki \in UNION {{k} \X (1..Len(node[k].children)) : k \in InTree} :
                     node[ki[1]].children[ki[2]] = n})

(* C1: every node of the scene is held by exactly one list, once: the      *)
(* top-level list or the children list of one node.                        *)
C1_EachNodeInOneList == \A n \in InTree : Occurrences(n) = 1

(* a drag has just promoted a nested node to the top level *)
C1_Promoted == last.op = "mouseup" /\ Len(files) > Len(pre.files)

(* C2: no node is its own descendant, and the target a pointer-up would    *)
(* drop the dragged node D into is neither D nor a descendant of D.        *)
C2_NoCycle ==
  /\ \A n \in DOMAIN node : n \notin Reach(node, Range(node[n].children))
  /\ (pointer.phase = "down" /\ draggingFile # Null /\ Len(multiSelectedFiles) = 0) =>
       LET T == dropTargetOf(Cur, pointer.x, pointer.y)
       IN T # Null => T # draggingFile /\ T \notin Reach(node, {draggingFile})

(* a drag has just dropped a top-level node into another node *)
C2_Dropped == last.op = "mouseup" /\ Len(files) < Len(pre.files)

(* C3: Delete with the single node X of the tree selected takes X and its  *)
(* subtree out of the tree and leaves no connection from or to X.          *)
C3_DeleteRemovesSubtree ==
  [][(last'.op = "delete" /\ selectedFile \in InTree) =>
       /\ Reach(node', {last'.a} \ {Null}) \cap TreeNodes(node', files') = {}
       /\ \A i \in 1..Len(connections') : last'.a \notin ConnRefs(connections'[i])]_vars

(* C4: both ends of every connection are nodes of the tree.                *)
C4_NoDanglingConnection ==
  \A i \in 1..Len(connections) : ConnRefs(connections[i]) \subseteq InTree

(* C5: no two connections join the same unordered pair of nodes.           *)
C5_OneConnectionPerPair ==
  \A i, j \in 1..Len(connections) :
     i # j => ConnRefs(connections[i]) # ConnRefs(connections[j])

(* C6: in connect mode with start node A, a pointer-down on another node B *)
(* appends the one connection A -> B exactly when no connection joins A    *)
(* and B in either direction, changes no other connection, and leaves      *)
(* connect mode either way.                                                *)
C6_SecondClickConnects ==
  [][(pointer.phase = "idle" /\ pointer'.phase = "down" /\ last'.op \in {"connect", "connectNone"}) =>
       LET A == connectionStart
           B == hit(Cur, pointer'.x, pointer'.y)
           n == Len(connections)
       IN /\ IF \E i \in 1..n : ConnRefs(connections[i]) = {A, B}
               THEN Len(connections') = n
               ELSE /\ Len(connections') = n + 1
                    /\ connections'[n + 1].from = last'.a
                    /\ connections'[n + 1].to = last'.b
                    /\ last'.a # last'.b
          /\ \A i \in 1..n : connections'[i].id = connections[i].id
          /\ ~isConnecting'
          /\ connectionStart' = Null]_vars

(* the second pointer-down has just added a connection *)
C6_Connected ==
  /\ last.op = "connect"
  /\ pointer.phase = "down"
  /\ Len(connections) = Len(pre.connections) + 1

(* C7: an undo directly after a mutating operation leaves the tree and the *)
(* connections equal to what they were before the operation.               *)
MutatingOps == {"create", "mouseup", "delete", "deleteMulti", "connect", "toggle", "addProp", "updateProp"}

C7_UndoRoundTrip ==
  (last.op = "undo" /\ last.of \in MutatingOps) => SceneJSON(Cur) = pre

(* C8: with Alpha nested in the only top-level node Beta, Delete with Beta *)
(* selected empties the top-level list, and an undo directly after it      *)
(* gives back the tree as it was: names, props, expansion flags, geometry. *)
NestedPair(js) ==
  /\ Len(js) = 1
  /\ js[1].name = "Beta"
  /\ Len(js[1].children) = 1
  /\ js[1].children[1].name = "Alpha"
  /\ Len(js[1].children[1].children) = 0

C8_DeleteBetaThenUndo ==
  /\ [][(last'.op = "delete" /\ NestedPair(ListToJSON(node, files)) /\ selectedFile = files[1])
          => files' = <<>>]_vars
  /\ []((last.op = "undo" /\ last.of = "delete" /\ NestedPair(pre.files))
          => ListToJSON(node, files) = pre.files)

(* Beta has been deleted with Alpha in it, and the undo has brought them back *)
C8_Restored ==
  /\ last.op = "undo"
  /\ last.of = "delete"
  /\ NestedPair(pre.files)
  /\ last.a # Null
  /\ last.a \notin InTree
  /\ node[last.a].name = "Beta"
  /\ NestedPair(ListToJSON(node, files))

(* C9: the history never holds more than maxHistorySize entries, and a     *)
(* push onto a full history drops the oldest entry, keeps the others in    *)
(* order and puts the new snapshot last.                                   *)
EntryJSON(e) == [files |-> e.files, connections |-> e.connections]

C9_HistoryBounded ==
  [][/\ Len(history') <= maxHistorySize
     /\ (pointer.phase = "down" /\ pointer'.phase = "up" /\ draggingFile # Null
           /\ Len(history) = maxHistorySize) =>
          /\ Len(history') = maxHistorySize
          /\ \A i \in 1..(maxHistorySize - 1) : EntryJSON(history'[i]) = EntryJSON(history[i + 1])
          /\ EntryJSON(history'[maxHistorySize]) = SceneJSON(Cur)]_vars

(* the 31st snapshot has just been pushed *)
C9_PushedOnFull ==
  /\ Len(history) = maxHistorySize
  /\ pointer.phase = "up"
  /\ MaxHistorySteps - steps = 2 * (maxHistorySize + 1)

(* C10: what a history entry stores (tree, connections, and the nodes it   *)
(* recorded as the selection) is the same after every later handler.       *)
RefView(h, n) == IF n = Null THEN <<>> ELSE <<ToJSON(h, n)>>

EntryView(h, e) ==
  [files |-> e.files, connections |-> e.connections,
   selectedFile |-> RefView(h, e.selectedFile),
   selectedChild |-> RefView(h, e.selectedChild),
   multiSelectedFiles |-> [i \in 1..Len(e.multiSelectedFiles) |-> ToJSON(h, e.multiSelectedFiles[i])]]

C10_EntriesImmutable ==
  [][Len(history) < maxHistorySize =>
       \A i \in 1..Min(Len(history), Len(history')) :
          EntryView(node', history'[i]) = EntryView(node, history[i])]_vars


(***************************************************************************)
(* C11: at every reachable state at most one of the three selection forms  *)
(* is set: a single node (selectedFile), a non-empty multi-selection       *)
(* (multiSelectedFiles), or a connection (selectedConnection).             *)
(***************************************************************************)
SelectionForms ==
  (IF selectedFile # Null THEN {"node"} ELSE {})
    \cup (IF Len(multiSelectedFiles) > 0 THEN {"group"} ELSE {})
    \cup (IF selectedConnection # NoConnection THEN {"connection"} ELSE {})

C11_OneSelectionForm == Cardinality(SelectionForms) <= 1


(***************************************************************************)
(* C12: duplicating a node N (Ctrl+click on N with an empty                *)
(* multi-selection) appends exactly one node to the list that holds N,     *)
(* leaves the rest of that list as it was, gives the new node N's name,    *)
(* kind and number of children, and makes it the single selected node.     *)
(* last'.a is N and last'.b the owner of N's list (Null: top level).       *)
(***************************************************************************)
C12_DuplicateInsertsSibling ==
  [][(pointer.phase = "up" /\ last'.op = "duplicate") =>
       LET N == hit(Cur, pointer.x, pointer.y)
           P == findParentOfComponent(node, N, files, Null).parent
           before == IF P = Null THEN files ELSE node[P].children
           after == IF last'.b = Null THEN files' ELSE node'[last'.b].children
           D == after[Len(after)]
       IN /\ Len(after) = Len(before) + 1
          /\ ListToJSON(node', SubSeq(after, 1, Len(before))) = ListToJSON(node, before)
          /\ D # last'.a
          /\ node'[D].name = node[N].name
          /\ node'[D].type = node[N].type
          /\ Len(node'[D].children) = Len(node[N].children)
          /\ selectedFile' = D
          /\ multiSelectedFiles' = <<>>]_vars


(***************************************************************************)
(* C13: a duplicate owns its properties.  Duplicating N leaves a selected  *)
(* node other than N that carries N's properties by value, and a property  *)
(* edit (updateProp acts on the selected node) changes the properties of   *)
(* no other node of the tree, so an edit of the duplicate never reaches N  *)
(* or its descendants and an edit of N never reaches the duplicate.        *)
(***************************************************************************)
C13_DuplicateOwnsProps ==
  [][/\ (pointer.phase = "up" /\ last'.op = "duplicate") =>
          /\ selectedFile' # Null
          /\ selectedFile' # last'.a
          /\ selectedFile' \in TreeNodes(node', files')
          /\ node'[selectedFile'].props = node[hit(Cur, pointer.x, pointer.y)].props
     /\ (pointer.phase = "idle" /\ pointer'.phase = "idle" /\ last'.op = "updateProp") =>
          \A n \in InTree \ {selectedFile} :
             n \in DOMAIN node' /\ node'[n].props = node[n].props]_vars


(***************************************************************************)
(* Hit-testing.  The points probed: the fixed points and two points of     *)
(* every box of the tree.                                                  *)
(***************************************************************************)
ProbePoints ==
  FixedPoints \cup CreatePoints
    \cup {GrabPoint(node, n) : n \in InTree}
    \cup {<<node[n].x + 50, node[n].y + 10>> : n \in InTree}

Contains(n, p) == inBox(node, n, p[1], p[2])

Below(n) == Reach(node, Range(node[n].children))

HitAt(p) == findFileAtPosition(node, connections, p[1], p[2], files)

ChildLists == {files} \cup {node[n].children : n \in InTree}

(* the nodes the backward iteration meets before it meets P: those of the  *)
(* subtrees that follow P, or an ancestor of P, in its list                *)
Later(P) ==
  UNION {Reach(node, {L[j] : j \in (i + 1)..Len(L)}) :
           <<L, i>> \in {Li \in UNION {{L2} \X (1..Len(L2)) : L2 \in ChildLists} :
                           Li[1][Li[2]] = P \/ P \in Below(Li[1][Li[2]])}}

Shown(n) == ~hiddenEventBox(node, connections, n)

DropAt(D, p) == findDropTarget(node, p[1], p[2], D, files)

C15_DropTargetExcludes ==
  \A p \in ProbePoints \cup {<<pointer.x, pointer.y>>} : \A D \in InTree :
     /\ DropAt(D, p) # D
     /\ DropAt(D, p) \notin Below(D)
     /\ DropAt(D, p) # Null => ~node[DropAt(D, p)].isEventBox
     /\ node[D].isEventBox => DropAt(D, p) = Null

(* a component is dragged over another one: the point lies in the dragged  *)
(* box and in the target's box, and for some component with a child a     *)
(* probed point lies in the child's box                                    *)
C15_DraggedOverTarget ==
  /\ pointer.phase = "down"
  /\ draggingFile \in InTree
  /\ Contains(draggingFile, <<pointer.x, pointer.y>>)
  /\ DropAt(draggingFile, <<pointer.x, pointer.y>>) # Null
  /\ \E D \in InTree, p \in ProbePoints : \E d \in Below(D) : Contains(d, p)


(***************************************************************************)
(* C16: event boxes stay outside the hierarchy: no children list holds an  *)
(* event box and no event box has a child.                                 *)
(***************************************************************************)
C16_EventBoxesOutside ==
  \A n \in DOMAIN node :
     /\ \A i \in 1..Len(node[n].children) : ~node[node[n].children[i]].isEventBox
     /\ node[n].isEventBox => node[n].children = <<>>

(* an event box was dragged and released over a component *)
C16_EventBoxReleasedOverComponent ==
  /\ pointer.phase = "up"
  /\ last.op = "mouseup"
  /\ last.a \in InTree
  /\ node[last.a].isEventBox
  /\ \E c \in InTree : ~node[c].isEventBox /\ Contains(c, <<pointer.x, pointer.y>>)


(***************************************************************************)
(* C17: a group drag never reparents.  Every pointer event of a drag with  *)
(* a non-empty multi-selection (the press on a member of the selection,    *)
(* the moves, the release) leaves the top-level list and every children    *)
(* list as they were; of a node only the geometry changes.                 *)
(***************************************************************************)
Ungeometric(n) == [n EXCEPT !.x = 0, !.y = 0, !.w = 0, !.h = 0]

SameLists ==
  /\ files' = files
  /\ \A n \in InTree :
        n \in DOMAIN node' /\ Ungeometric(node'[n]) = Ungeometric(node[n])

C17_GroupDragKeepsLists ==
  [][/\ (pointer.phase = "idle" /\ pointer'.phase = "down"
           /\ draggingFile' # Null /\ Len(multiSelectedFiles') > 0) => SameLists
     /\ (pointer.phase = "down" /\ draggingFile # Null /\ ~isAreaSelecting
           /\ Len(multiSelectedFiles) > 0 /\ last'.op \in {"view", "mouseup"}) => SameLists]_vars

(* a group drag was released over a component outside the selection *)
C17_GroupReleasedOverComponent ==
  /\ pointer.phase = "up"
  /\ last.op = "mouseup"
  /\ Len(multiSelectedFiles) > 0
  /\ last.a \in InTree
  /\ \E c \in InTree \ Range(multiSelectedFiles) :
        ~node[c].isEventBox /\ c # last.a /\ Contains(c, <<pointer.x, pointer.y>>)


(***************************************************************************)
(* Drops.  A release that ends the drag of a single component D held by a  *)
(* list of the tree; last'.a is D and last'.b the drop target after the    *)
(* release.                                                                *)
(***************************************************************************)
SingleRelease ==
  /\ pointer.phase = "down"
  /\ pointer'.phase = "up"
  /\ draggingFile \in InTree
  /\ ~isAreaSelecting
  /\ Len(multiSelectedFiles) = 0
  /\ ~node[draggingFile].isEventBox

InTreeAfter == TreeNodes(node', files')

(* D is the last child of T after the release and is held by no other list *)
DroppedInto(D, T) ==
  /\ T \in InTreeAfter
  /\ Len(node'[T].children) > 0
  /\ node'[T].children[Len(node'[T].children)] = D
  /\ Cardinality({i \in 1..Len(node'[T].children) : node'[T].children[i] = D}) = 1
  /\ \A i \in 1..Len(files') : files'[i] # D
  /\ \A n \in InTreeAfter \ {T} : \A i \in 1..Len(node'[n].children) : node'[n].children[i] # D

(* C18 (as amended): when a release ends the drag of a single non-event-box *)
(* node D, held by a list of the tree, over a drop target T, D leaves the  *)
(* list that held it and becomes the last element of T.children, and T's   *)
(* computed height is strictly greater than before if T is expanded and D  *)
(* was not a descendant of T.                                              *)
C18_DropAppendsAndGrows ==
  [][(SingleRelease /\ dropTargetOf(Cur, pointer.x, pointer.y) # Null) =>
       LET T == dropTargetOf(Cur, pointer.x, pointer.y) IN
       /\ DroppedInto(last'.a, last'.b)
       /\ Len(node'[last'.b].children) =
            Len(node[T].children) + (IF draggingFile \in Range(node[T].children) THEN 0 ELSE 1)
       /\ (node[T].expanded /\ draggingFile \notin Below(T)) =>
             computedHeight(node', last'.b) > computedHeight(node, T)]_vars

(* a top-level component was dropped into an expanded one *)
C18_DroppedFromTopLevel ==
  /\ pointer.phase = "up"
  /\ last.op = "mouseup"
  /\ last.a # Null
  /\ last.b # Null
  /\ node[last.b].expanded
  /\ node[last.b].children[Len(node[last.b].children)] = last.a
  /\ Len(files) < Len(pre.files)

(* C18 as stated: the same, with the height strictly greater whenever T is *)
(* expanded and D was not already T's child.                               *)
C18_DropAppendsAndGrowsUnlessChild ==
  [][(SingleRelease /\ dropTargetOf(Cur, pointer.x, pointer.y) # Null) =>
       LET T == dropTargetOf(Cur, pointer.x, pointer.y) IN
       /\ DroppedInto(last'.a, last'.b)
       /\ (node[T].expanded /\ draggingFile \notin Range(node[T].children)) =>
             computedHeight(node', last'.b) > computedHeight(node, T)]_vars


(***************************************************************************)
(* C19: when a release ends the drag of a single node D of the tree with   *)
(* no drop target: a nested D leaves its parent's children and becomes the *)
(* last element of the top-level list, at (pointer minus grab offset),     *)
(* every other node staying where it is; a top-level D leaves the          *)
(* top-level list and every children list unchanged.                       *)
(***************************************************************************)
PlainRelease ==
  /\ pointer.phase = "down"
  /\ pointer'.phase = "up"
  /\ draggingFile \in InTree
  /\ ~isAreaSelecting
  /\ Len(multiSelectedFiles) = 0
  /\ dropTargetOf(Cur, pointer.x, pointer.y) = Null

C19_NoTargetPromotesOrStays ==
  [][PlainRelease =>
       IF draggingFile \notin Range(files)
         THEN LET P == findParentOfComponent(node, draggingFile, files, Null).parent IN
              /\ Len(files') = Len(files) + 1
              /\ files'[Len(files')] = last'.a
              /\ \A i \in 1..Len(files) :
                    /\ node'[files'[i]].name = node[files[i]].name
                    /\ node'[files'[i]].type = node[files[i]].type
              /\ \A n \in InTreeAfter : \A i \in 1..Len(node'[n].children) :
                    node'[n].children[i] # last'.a
              /\ Len(node'[P].children) = Len(node[P].children) - 1
              /\ Cardinality(InTreeAfter) = Cardinality(InTree)
              /\ node'[last'.a].name = node[draggingFile].name
              /\ node'[last'.a].x = pointer.x - offsetX
              /\ node'[last'.a].y = pointer.y - offsetY
         ELSE /\ files' = files
              /\ \A n \in InTree : n \in DOMAIN node' /\ node'[n].children = node[n].children]_vars

(* a nested component was released on empty canvas *)
C19_ReleasedOnCanvas ==
  /\ pointer.phase = "up"
  /\ last.op = "mouseup"
  /\ last.a # Null
  /\ last.b = Null
  /\ Len(files) = Len(pre.files) + 1
  /\ files[Len(files)] = last.a
  /\ node[last.a].x = pointer.x - offsetX
  /\ hit(Cur, pointer.x, pointer.y) = last.a


(***************************************************************************)
(* C20: Delete/Backspace acts on one selection form, in fixed priority.    *)
(* With a connection selected, that connection alone goes and the tree     *)
(* stays; otherwise, with a non-empty multi-selection, every node of it    *)
(* leaves the tree together with the connections that reference it, and    *)
(* the selection is cleared; otherwise, with a single node selected, that  *)
(* node leaves the tree; with nothing selected, scene and history stay.    *)
(* The snapshot the handler pushes keeps the references of the selection   *)
(* it acted on.                                                            *)
(***************************************************************************)
DeleteStep ==
  /\ pointer' = pointer
  /\ last'.op \in {"deleteConnection", "deleteMulti", "delete", "deleteNone"}

Pushed == history'[Len(history')]

ReferencedAfter(n) == \E i \in 1..Len(connections') : n \in ConnRefs(connections'[i])

C20_DeletePriority ==
  [][DeleteStep =>
       IF selectedConnection # NoConnection
         THEN /\ ConnectionsToJSON(node', connections') =
                   ConnectionsToJSON(node, SelectSeq(connections, LAMBDA c : c # selectedConnection))
              /\ ListToJSON(node', files') = ListToJSON(node, files)
              /\ selectedConnection' = NoConnection
       ELSE IF Len(multiSelectedFiles) > 0
         THEN /\ \A i \in 1..Len(Pushed.multiSelectedFiles) :
                    /\ Pushed.multiSelectedFiles[i] \notin InTreeAfter
                    /\ ~ReferencedAfter(Pushed.multiSelectedFiles[i])
              /\ Len(Pushed.multiSelectedFiles) = Len(multiSelectedFiles)
              /\ multiSelectedFiles' = <<>>
              /\ selectedFile' = Null
       ELSE IF selectedFile # Null
         THEN /\ Pushed.selectedFile # Null
              /\ Pushed.selectedFile \notin InTreeAfter
       ELSE /\ SceneJSON(Cur) = [files |-> ListToJSON(node', files'),
                                 connections |-> ConnectionsToJSON(node', connections')]
            /\ Len(history') = Len(history)]_vars


(* a step in which draw ran for certain: the window was resized, or the    *)
(* stored project changed                                                  *)
Rendered == last'.op = "resize" \/ localStorage' # localStorage

(* the URL was written with the scene as it is after the step *)
UrlWritten == url' # url

(* C21: URL writes are coalesced.  At most one write is pending at any     *)
(* time; a render after the initial-load window leaves exactly one write   *)
(* pending, due 300 ms later, whatever was pending before; and the URL is  *)
(* written only when a pending write comes due (or the page is left), with *)
(* the scene of that moment.                                               *)
C21_UrlWriteCoalesced ==
  [][/\ Cardinality(timeouts') <= 1
     /\ (Rendered /\ ~isInitialLoad) => timeouts' = {<<urlUpdateTimeout', URL_UPDATE_DELAY>>}
     /\ UrlWritten =>
          /\ last'.op \in {"time", "beforeunload"}
          /\ \E t \in timeouts : t[1] = urlUpdateTimeout
                                   /\ (last'.op = "time" => t[2] <= INITIAL_LOAD_DELAY)
          /\ url' = <<SceneJSON(Cur)>>
          /\ timeouts' = {}]_vars


(* the page is left in this step *)
Unloads == page # "unloaded" /\ page' = "unloaded"

(* C22: a pending URL write is not lost when the page is left.  If a       *)
(* timeout of saveToURLAsync is pending at beforeunload, it is cancelled   *)
(* and the URL is written in the handler with the scene of that moment; if *)
(* none is pending, the URL is left as it is.                              *)
C22_UnloadFlushesPending ==
  [][Unloads =>
       /\ timeouts' = {}
       /\ IF timeouts # {} THEN url' = <<SceneJSON(Cur)>> ELSE url' = url]_vars

(* the page was left while a write was pending, and the URL holds a scene  *)
(* that no timeout had written                                             *)
C22_FlushedAtUnload ==
  /\ page = "unloaded"
  /\ urlUpdateTimeout \notin {Null, Uninitialized}
  /\ timeouts = {}
  /\ url = <<SceneJSON(Cur)>>
  /\ url # <<pre>>


(* C23: the project in local storage is the live scene: every handler that *)
(* changes the tree or the connection list ends with a render, and every   *)
(* render stores the scene there.                                          *)
C23_StoredSceneIsLive == localStorage = <<SceneJSON(Cur)>>


(* the nodes of the loaded tree that a saved endpoint matches by name,     *)
(* position and kind, at the time the connections are rebuilt (before the  *)
(* initial draw)                                                           *)
LoadedHeap == ParseList(url[1].files, SortedSeq(NodeIds)).heap

Matches(e) ==
  {n \in DOMAIN LoadedHeap : /\ LoadedHeap[n].name = e.name
                             /\ LoadedHeap[n].x = e.x
                             /\ LoadedHeap[n].y = e.y
                             /\ LoadedHeap[n].type = e.type}

Rebuildable(c) == Cardinality(Matches(c.from)) = 1 /\ Cardinality(Matches(c.to)) = 1

(* C24: rebuilding the connections of a stored project never guesses.      *)
(* Right after a load the connections are the saved ones of which each end *)
(* matches exactly one node of the loaded tree, in the saved order, each   *)
(* on its matching pair; a saved connection with an end that matches no    *)
(* node or more than one node is dropped.                                  *)
C24_RebuildNeverGuesses ==
  (last.op = "load" /\ url # <<>>) =>
    LET kept == SelectSeq(url[1].connections, Rebuildable) IN
    /\ Len(connections) = Len(kept)
    /\ \A i \in 1..Len(connections) :
         /\ connections[i].id = kept[i].id
         /\ Matches(kept[i].from) = {connections[i].from}
         /\ Matches(kept[i].to) = {connections[i].to}


(* the lines of props in the header of object 1 *)
PropLines(h) == IF Len(h[1].props) > 0 THEN 20 * Len(h[1].props) + 20 ELSE 0

HasContent(h) == hasChildren(h, 1) \/ hasHooks(h, 1) \/ hasInnerHtml(h, 1)

PanelOps == {"updateComponentName", "addProp", "updateProp", "removeProp"}

PanelChange ==
  /\ pointer.phase = "idle"
  /\ pointer'.phase = "idle"
  /\ last'.op \in PanelOps
  /\ SceneJSON(Cur') # SceneJSON(Cur)

(* C26: an operation of the configuration panel that changes the selected  *)
(* node (a rename, a prop added, updated or removed) pushes a snapshot of  *)
(* the scene before the change, and an undo directly after it gives that   *)
(* scene back.                                                             *)
C26_PanelOpsSnapshot ==
  [][PanelChange =>
       /\ Len(history') = Len(history) + 1
       /\ EntryJSON(Pushed) = SceneJSON(Cur)
       /\ CanUndo(Cur') => SceneJSON(undo(Cur')) = SceneJSON(Cur)]_vars


(* C27: entering connect mode clears every form of selection: when         *)
(* toggleConnectionMode turns isConnecting on, no node is selected, the    *)
(* multi-selection is empty, no connection is selected and no start node   *)
(* is recorded.                                                            *)
C27_ConnectModeClearsSelection ==
  [][(~isConnecting /\ isConnecting') =>
       /\ selectedFile' = Null
       /\ selectedChild' = Null
       /\ multiSelectedFiles' = <<>>
       /\ selectedConnection' = NoConnection
       /\ connectionStart' = Null]_vars


(* C28: in connect mode with a start node recorded, a press on empty       *)
(* canvas or on the start node itself cancels the half-made connection: no *)
(* connection is added and the start node is forgotten.                    *)
C28_PressCancelsConnection ==
  [][(/\ isConnecting
      /\ connectionStart # Null
      /\ pointer.phase = "idle"
      /\ pointer'.phase = "down"
      /\ hit(Cur, pointer'.x, pointer'.y) \in {Null, connectionStart}) =>
       /\ ConnectionsToJSON(node', connections') = ConnectionsToJSON(node, connections)
       /\ connectionStart' = Null]_vars


(* the Ctrl/Cmd+Z key is handled in this step *)
UndoStep == pointer' = pointer /\ steps' = steps - 1 /\ last'.op = "undo"

ConnectStep ==
  /\ pointer.phase = "idle"
  /\ pointer'.phase = "down"
  /\ last'.op = "connect"
  /\ Len(connections') = Len(connections) + 1

(* C30: committing a connection pushes the scene before the commit: the    *)
(* entry pushed does not hold the new connection, and an undo directly     *)
(* after the commit leaves the connections without it.                     *)
C30_ConnectSnapshotsBefore ==
  [][ConnectStep =>
       /\ Len(history') = Len(history) + 1
       /\ Pushed.connections = ConnectionsToJSON(node, connections)
       /\ CanUndo(Cur') =>
            ConnectionsToJSON(undo(Cur').node, undo(Cur').connections)
              = ConnectionsToJSON(node, connections)]_vars



(***************************************************************************)
(* C31: findDropTarget resolves ties as findFileAtPosition does: for every *)
(* point and every node D of the tree taken as the dragged node, the drop  *)
(* target is the node findFileAtPosition returns on the same tree with the *)
(* subtree of D and all event boxes removed (so of two overlapping         *)
(* top-level nodes containing the point, the later one of the list).       *)
(***************************************************************************)
Kept(D, list) == SelectSeq(list, LAMBDA n : n # D /\ ~node[n].isEventBox)

(* the tree without the subtree of D and without the event boxes *)
Pruned(D) == [n \in DOMAIN node |-> [node[n] EXCEPT !.children = Kept(D, @)]]

HitWithout(D, p) == findFileAtPosition(Pruned(D), <<>>, p[1], p[2], Kept(D, files))

C31_DropTargetAsHitTest ==
  \A p \in ProbePoints \cup {<<pointer.x, pointer.y>>} : \A D \in InTree :
     ~node[D].isEventBox => DropAt(D, p) = HitWithout(D, p)



(***************************************************************************)
(* C32: a release that reparents or promotes the dragged node D leaves the *)
(* connection list as it was: the same connections in the same order, and  *)
(* every connection that started or ended at D still does.                 *)
(***************************************************************************)
Moves ==
  /\ SingleRelease
  /\ \/ dropTargetOf(Cur, pointer.x, pointer.y) # Null
     \/ draggingFile \notin Range(files)

C32_DropKeepsConnections ==
  [][Moves =>
       /\ Len(connections') = Len(connections)
       /\ \A i \in 1..Len(connections) :
             /\ i <= Len(connections') => connections'[i].id = connections[i].id
             /\ (i <= Len(connections') /\ connections[i].from = draggingFile) =>
                   connections'[i].from = last'.a
             /\ (i <= Len(connections') /\ connections[i].to = draggingFile) =>
                   connections'[i].to = last'.a]_vars



(***************************************************************************)
(* C33: after an undo the selection refers to the restored scene:          *)
(* selectedFile and every member of multiSelectedFiles is empty or a node  *)
(* of the tree, and selectedConnection is empty or one of the connections. *)
(***************************************************************************)
ConnectionObjects == {connections[i].oid : i \in 1..Len(connections)}

C33_UndoSelectionInScene ==
  last.op = "undo" =>
     /\ selectedFile \in {Null} \cup InTree
     /\ \A i \in 1..Len(multiSelectedFiles) : multiSelectedFiles[i] \in InTree
     /\ selectedConnection = NoConnection \/ selectedConnection.oid \in ConnectionObjects



(***************************************************************************)
(* C34: a node object that a Delete removed from the tree, or an Undo      *)
(* replaced, during a drag is not brought back by the release: when the    *)
(* dragged object is in no list of the tree at the release, it is in no    *)
(* list of the tree after it.                                              *)
(***************************************************************************)
ReleaseOfRemoved ==
  /\ pointer.phase = "down"
  /\ pointer'.phase = "up"
  /\ last'.op = "mouseup"
  /\ draggingFile # Null
  /\ draggingFile \notin InTree

C34_ReleaseKeepsRemovedOut ==
  [][ReleaseOfRemoved => last'.a \notin InTreeAfter]_vars



(***************************************************************************)
(* C35: the interaction modes exclude one another: at most one of dragging *)
(* (draggingFile set), area-selecting and connecting is active, whatever   *)
(* the pointer and key events, a button released outside the canvas        *)
(* included.                                                               *)
(***************************************************************************)
ActiveModes ==
  (IF draggingFile # Null THEN {"dragging"} ELSE {})
    \cup (IF isAreaSelecting THEN {"areaSelecting"} ELSE {})
    \cup (IF isConnecting THEN {"connecting"} ELSE {})

C35_ModesExclusive == Cardinality(ActiveModes) <= 1



(***************************************************************************)
(* C36: removeFile(target, files) ends without an error for every object   *)
(* as the target, whatever the tree (event boxes in the top-level list     *)
(* included); it returns true exactly when the target is in the tree, and  *)
(* when it returns false the tree, the connections and the selected        *)
(* connection are as before.                                               *)
(***************************************************************************)
Removal(t) == removeFile(Scene(Cur), t, Null)

C36_RemoveFileTotal ==
  \A t \in DOMAIN node :
     /\ Removal(t).status # "throw"
     /\ Removal(t).status = "found" <=> t \in InTree
     /\ Removal(t).status # "found" => Removal(t).scene = Scene(Cur)



(***************************************************************************)
(* C37: the release that ends an area selection selects exactly the nodes  *)
(* of the tree, at any depth, whose box overlaps the rectangle between the *)
(* anchor and the release point: without a modifier the multi-selection    *)
(* becomes that set and the single selection is cleared, with Ctrl/Cmd it  *)
(* becomes the union of the previous multi-selection and that set; in both *)
(* cases area-selecting ends.                                              *)
(***************************************************************************)
AreaRelease ==
  /\ pointer.phase = "down"
  /\ pointer'.phase = "up"
  /\ isAreaSelecting

(* the closed intervals [a1, a2] and [b1, b2] (ends in any order) meet *)
Meet(a1, a2, b1, b2) == Max(Min(a1, a2), Min(b1, b2)) <= Min(Max(a1, a2), Max(b1, b2))

InRectangle ==
  {n \in InTree :
     /\ Meet(node[n].x, node[n].x + node[n].w, selectionAreaStart[1], pointer.x)
     /\ Meet(node[n].y, node[n].y + node[n].h, selectionAreaStart[2], pointer.y)}

C37_AreaSelectsOverlapping ==
  [][AreaRelease =>
       /\ ~isAreaSelecting'
       /\ ~pointer.ctrl => /\ Range(multiSelectedFiles') = InRectangle
                           /\ selectedFile' = Null
       /\ pointer.ctrl => Range(multiSelectedFiles') = Range(multiSelectedFiles) \cup InRectangle]_vars

(* an area selection with Ctrl/Cmd held has added a nested node to a       *)
(* multi-selection that was not empty                                      *)
C37_NestedAddedToSelection ==
  /\ pointer.phase = "up"
  /\ pointer.ctrl
  /\ ~isAreaSelecting
  /\ draggingFile = Null
  /\ selectionAreaStart \in EmptyPoints
  /\ selectionAreaEnd = <<pointer.x, pointer.y>>
  /\ selectionAreaStart # selectionAreaEnd
  /\ \E i, j \in 1..Len(multiSelectedFiles) :
        /\ multiSelectedFiles[i] \in InTree \ InRectangle
        /\ multiSelectedFiles[j] \in InRectangle \ Range(files)



(***************************************************************************)
(* C38: findFileAtPosition returns no node that is not shown: no node      *)
(* nested under a collapsed top-level node, and no event box that a        *)
(* connection from a collapsed node ends at.                               *)
(***************************************************************************)
UnderCollapsed(n) == \E i \in 1..Len(files) : ~node[files[i]].expanded /\ n \in Below(files[i])

OwnerCollapsed(n) ==
  /\ node[n].isEventBox
  /\ \E i \in 1..Len(connections) : connections[i].to = n /\ ~node[connections[i].from].expanded

C38_HitOnlyShown ==
  \A p \in ProbePoints :
     HitAt(p) # Null => ~UnderCollapsed(HitAt(p)) /\ ~OwnerCollapsed(HitAt(p))



(***************************************************************************)
(* C39: the identity tokens of the connections are unique: no two          *)
(* connections of the list have the same id, however quickly one is        *)
(* created after the other.                                                *)
(***************************************************************************)
C39_ConnectionIdsUnique ==
  \A i, j \in 1..Len(connections) : i # j => connections[i].id # connections[j].id

==============================================================================
